---- MODULE Spec2Model ----
(***************************************************************************)
(* A model of the phytoclinic portal: the app shell's auth gate, the       *)
(* client dashboard's rollup, the analytics dashboard's category lookup    *)
(* and KPIs, the keyword query responder, catalogue deletion and signup.   *)
(*                                                                         *)
(* Text is a sequence of one-character strings, so that lowercasing,       *)
(* trimming and substring search are computed rather than assumed.  A      *)
(* JavaScript null or undefined text is the value Null.                    *)
(***************************************************************************)
EXTENDS Integers, Sequences, FiniteSets, TLC

\* ------------------------------------------------------------------ text

\* null / undefined
Null == <<"NULL">>

\* String.prototype.toLowerCase on one character
LowerChar(c) ==
  CASE c = "A" -> "a" [] c = "B" -> "b" [] c = "C" -> "c" [] c = "D" -> "d"
    [] c = "E" -> "e" [] c = "F" -> "f" [] c = "G" -> "g" [] c = "H" -> "h"
    [] c = "I" -> "i" [] c = "J" -> "j" [] c = "K" -> "k" [] c = "L" -> "l"
    [] c = "M" -> "m" [] c = "N" -> "n" [] c = "O" -> "o" [] c = "P" -> "p"
    [] c = "Q" -> "q" [] c = "R" -> "r" [] c = "S" -> "s" [] c = "T" -> "t"
    [] c = "U" -> "u" [] c = "V" -> "v" [] c = "W" -> "w" [] c = "X" -> "x"
    [] c = "Y" -> "y" [] c = "Z" -> "z" [] OTHER -> c

\* String.prototype.toLowerCase
ToLowerCase(s) == [i \in 1..Len(s) |-> LowerChar(s[i])]

\* String.prototype.trim (the only white space of the model is the blank)
Trim(s) ==
  LET keep == {i \in 1..Len(s) : s[i] # " "}
  IN  IF keep = {} THEN <<>>
      ELSE LET lo == CHOOSE i \in keep : \A j \in keep : i <= j
               hi == CHOOSE i \in keep : \A j \in keep : j <= i
           IN  SubSeq(s, lo, hi)

\* String.prototype.includes
Includes(s, t) ==
  \E i \in 0..(Len(s) - Len(t)) : SubSeq(s, i + 1, i + Len(t)) = t

\* JavaScript truthiness of a text-or-null value
Truthy(s) == s # Null /\ s # <<>>

\* Array.prototype.find, given the indices of the elements that satisfy its
\* predicate: the first of them, or 0 (undefined) when there is none
FindIndex(hits) ==
  IF hits = {} THEN 0 ELSE CHOOSE i \in hits : \A j \in hits : i <= j

\* ------------------------------------------------------- JavaScript values

\* A column value of an invoice line: null, a number, or a text.
JsNull == [t |-> "null"]
\* a null array of rows (data: null), which no list of rows equals
NullRows == <<JsNull>>
Num(n) == [t |-> "num", n |-> n]
Str(s) == [t |-> "str", s |-> s]

\* v || 0 keeps v unless it is null, 0 or the empty text
JsTruthy(v) ==
  CASE v.t = "null" -> FALSE
    [] v.t = "num" -> v.n # 0
    [] v.t = "str" -> v.s # <<>>

DigitValue(c) ==
  CASE c = "0" -> 0 [] c = "1" -> 1 [] c = "2" -> 2 [] c = "3" -> 3 [] c = "4" -> 4
    [] c = "5" -> 5 [] c = "6" -> 6 [] c = "7" -> 7 [] c = "8" -> 8 [] c = "9" -> 9
Digits == {"0", "1", "2", "3", "4", "5", "6", "7", "8", "9"}

RECURSIVE DigitsValue(_)
DigitsValue(s) ==
  IF s = <<>> THEN 0
  ELSE 10 * DigitsValue(SubSeq(s, 1, Len(s) - 1)) + DigitValue(s[Len(s)])

\* ToNumber, as the operators * and Number() apply it, on null, numbers and
\* texts of digits (the empty text is 0)
ToNumber(v) ==
  CASE v.t = "null" -> 0
    [] v.t = "num" -> v.n
    [] v.t = "str" -> DigitsValue(Trim(v.s))

\* ------------------------------------------------------------ variables

VARIABLES
  \* getProductCategory applied to one name
  products,        \* the analytics dashboard's products state
  argProduct,      \* the product name handed to getProductCategory
  retCategory,     \* what getProductCategory returned ("pending" before the call)
  \* the client dashboard
  dashPc,          \* where fetchDashboardData stands
  factureData,     \* the invoice lines the facture query returned
  dashboardData,   \* the component's dashboardData state
  \* the analytics dashboard
  anPc,            \* "unmounted", "fetching" (fetchDataAndProcess awaits) or "shown"
  liveFactures,    \* the lines of the last successful fetch
  anLoading,
  anError,
  selectedTimeframe,
  filteredFactures,
  kpis,            \* totalRevenue, totalOrders, totalItems
  monthlyRevenue,
  \* the keyword query responder (AIQueryInterface)
  query,           \* the text of the input
  queryHistory,    \* the entries, newest first
  isProcessing,
  aiFactureData,   \* the factureData prop
  aiProducts,      \* the products prop
  aiClosure,       \* what the waiting handleSubmitQuery call holds
  \* the app shell
  appPc,           \* "getSession" while initializeAuth awaits, then "listening"
  authSession,     \* the session user the auth service holds
  user,
  userType,
  userName,
  checking,
  fetches,         \* the session users of the profile fetches not yet answered
  path,            \* the location
  \* the catalogues
  catalogueRows,   \* the rows of product_catalogues
  storageObjects,  \* the files of the catalogues bucket
  catalogues,      \* CatalogueUploader's list
  deleteLog,       \* the last confirmed deleteCatalogue call: its catalogue, the
                   \* userType of the app then, and its toast
  \* the signup form
  suPc,            \* "form", or what handleSubmit awaits: "signUp", "insert"
  suEmail,
  suName,
  suError,
  suLoading,
  suUser,          \* data.user of the running handleSubmit
  suAlert,         \* the last alert
  suPath,          \* the location: "/signup", or "/login" after navigate
  authAccounts,    \* the emails of the auth service's accounts
  usersTable,      \* the rows of the users table
  \* the purchase history page
  hPc,             \* "unmounted", "facture" while fetchHistory awaits, "shown"
  hFacture,        \* the lines the facture query returned
  hProducts,       \* the rows the products query returned
  history,
  filteredHistory,
  hLoading,
  productCategories,
  allCategories,
  dateFilter,
  productFilter,
  categoryFilter,
  \* the mind map layout
  mmFacture,       \* buildImprovedLayout's factureData
  mmProducts,      \* its products
  mmExpanded,      \* the ids expandedNodes holds true for
  mmViewport,      \* viewportWidth and viewportHeight
  mmNodes,         \* the nodes it returned, each with the source of its edge
  \* the database sync manager
  smMounted,       \* DatabaseSyncManager's effect has run
  smIsRunning,     \* syncStatus.isRunning
  smLoading,
  smChecks,        \* the checkSyncStatus calls not yet answered
  smOp,            \* the running syncTodaysInvoices or runManualSync call
  smInvoices,      \* the rows of the invoices table
  invoiceProducts, \* the invoice_id of the rows of invoice_products
  smLog,           \* the operations that have ended, oldest first
  \* the sync manager page
  fsPc,            \* "idle", or what the running handler awaits
  fsStatus,        \* syncStatus
  fsMessage,       \* syncMessage
  fsLoading,
  fsTimer,         \* a setTimeout(() => setSyncMessage(''), 3000) is pending
  fsCalls,         \* the calls of the remote sync function, each with the
                   \* org_id and session found before it
  fsOrgId,         \* the handler's credentials.org_id is set
  zohoOrg,         \* a zoho_credentials row with an org_id exists
  fsSession,       \* the auth service holds a session
  \* CatalogueUploader's upload
  upPc,            \* "idle", or what the running uploadCatalogue awaits
  uploading,
  uploadProgress,
  upFileName,      \* the fileName of the running upload
  uploadLog,       \* the uploads that returned: fileName and toast
  \* the sync manager's trigger test
  ttPc,            \* "idle", or what the running testTriggers awaits
  ttNumber,        \* its testInvoiceNumber
  ttLog            \* the tests that ended: number, and whether the insert succeeded

categoryVars == <<products, argProduct, retCategory>>
dashVars == <<dashPc, factureData, dashboardData>>
analyticsVars == <<anPc, liveFactures, anLoading, anError, selectedTimeframe,
                   filteredFactures, kpis, monthlyRevenue>>
queryVars == <<query, queryHistory, isProcessing, aiFactureData, aiProducts, aiClosure>>
appVars == <<appPc, authSession, user, userType, userName, checking, fetches, path,
             catalogueRows, storageObjects, catalogues, deleteLog>>
signupVars == <<suPc, suEmail, suName, suError, suLoading, suUser, suAlert, suPath,
                authAccounts, usersTable>>
historyVars == <<hPc, hFacture, hProducts, history, filteredHistory, hLoading,
                 productCategories, allCategories, dateFilter, productFilter,
                 categoryFilter>>
layoutVars == <<mmFacture, mmProducts, mmExpanded, mmViewport, mmNodes>>
syncVars == <<smMounted, smIsRunning, smLoading, smChecks, smOp, smInvoices,
              invoiceProducts, smLog>>
pageVars == <<fsPc, fsStatus, fsMessage, fsLoading, fsTimer, fsCalls, fsOrgId, zohoOrg,
              fsSession>>
uploadVars == <<upPc, uploading, uploadProgress, upFileName, uploadLog>>
testVars == <<ttPc, ttNumber, ttLog>>
vars == <<categoryVars, dashVars, analyticsVars, queryVars, appVars, signupVars,
         historyVars,
         layoutVars,
         syncVars,
         pageVars,
         uploadVars,
         testVars>>

\* Each specification runs one component and leaves the others as constructed.
IdleCategory ==
  /\ products = <<>>
  /\ argProduct = Null
  /\ retCategory = <<"i","d","l","e">>

\* ------------------------------------------- analytics: getProductCategory

Uncategorized == <<"U","n","c","a","t","e","g","o","r","i","z","e","d">>

\* a mutant of the exact-match test: the comparison keeps the letters' case
ExactMatch_CaseSensitive(p, productName) ==
  /\ p.itemName # Null
  /\ Trim(p.itemName) = Trim(productName)

\* p["Item Name"]?.toLowerCase().trim() === productName.toLowerCase().trim()
ExactMatch(p, productName) ==
  /\ p.itemName # Null
  /\ Trim(ToLowerCase(p.itemName)) = Trim(ToLowerCase(productName))

\* itemName.includes(searchName) || searchName.includes(itemName)
SubstringMatch(p, productName) ==
  LET itemName == IF Truthy(p.itemName) THEN ToLowerCase(p.itemName) ELSE <<>>
      searchName == ToLowerCase(productName)
  IN  Includes(itemName, searchName) \/ Includes(searchName, itemName)

getProductCategory(productName, table) ==
  IF ~Truthy(productName) \/ Len(table) = 0 THEN Uncategorized
  ELSE LET exact == FindIndex({i \in 1..Len(table) : ExactMatch(table[i], productName)})
           sub == FindIndex({i \in 1..Len(table) : SubstringMatch(table[i], productName)})
           found == IF exact # 0 THEN exact ELSE sub
       IN  IF found = 0 THEN Uncategorized
           ELSE IF Truthy(table[found].category) THEN table[found].category
           ELSE Uncategorized

\* The names and categories the product table and the invoice lines draw on.
ItemNames ==
  { <<>>, <<"a">>, <<"A">>, <<"a"," ">>, <<"a","b">>, <<"b">> }
Categories == { <<"X">>, <<"Y">> }
MaxRows == 2

\* the value of a result slot before the call has returned
Pending == <<"p","e","n","d","i","n","g">>

\* the products tables of the model: rows with or without a name and a category
ProductTables ==
  UNION { [1..n -> [itemName : ItemNames \cup {Null}, category : Categories \cup {Null}]] :
          n \in 0..MaxRows }

CallGetProductCategory ==
  /\ retCategory = Pending
  /\ retCategory' = getProductCategory(argProduct, products)
  /\ UNCHANGED <<products, argProduct>>
  /\ UNCHANGED <<dashVars, analyticsVars, queryVars, appVars, signupVars, historyVars, layoutVars, syncVars, pageVars, uploadVars, testVars>>


\* ------------------------------------------- client dashboard: the rollup

MaxLines == 2

\* three lines of two invoices, with numbers in every column
ExampleLines ==
  << [Quantity |-> Num(2), Price |-> Num(10), invoice_id |-> <<"A">>],
     [Quantity |-> Num(1), Price |-> Num(5), invoice_id |-> <<"A">>],
     [Quantity |-> Num(3), Price |-> Num(2), invoice_id |-> <<"B">>] >>

\* the facture lines a client's fetch returns in the model
FactureLists ==
  UNION { [1..n -> [Quantity : { JsNull, Num(0), Num(2), Str(<<"3">>) },
                    Price : { JsNull, Num(5), Str(<<"1","0">>) },
                    invoice_id : { Null, <<>>, <<"A">>, <<"B">> }]] :
          n \in 0..MaxLines } \cup {ExampleLines}

\* userProfile.name of the signed-in client
ProfileName == <<"u">>

\* useState({... loading: true})
InitialDashboardData ==
  [totalSpent |-> 0, totalOrders |-> 0, totalItems |-> 0, userName |-> <<>>,
   cataloguesCount |-> 0, loading |-> TRUE]

IdleDash ==
  /\ dashPc = "unmounted"
  /\ factureData = NullRows
  /\ dashboardData = InitialDashboardData

\* v || 0
OrZero(v) == IF JsTruthy(v) THEN v ELSE Num(0)

\* a mutant of ItemSpent: a missing price counts as one
ItemSpent_PriceDefaultsToOne(item) ==
  ToNumber(OrZero(item.Quantity))
    * ToNumber(IF JsTruthy(item.Price) THEN item.Price ELSE Num(1))

\* (item.Quantity || 0) * (item.Price || 0)
ItemSpent(item) == ToNumber(OrZero(item.Quantity)) * ToNumber(OrZero(item.Price))

\* a mutant of ItemQuantity: every line counts as one item
ItemQuantity_OnePerLine(item) == 1

\* Number(item.Quantity) || 0
ItemQuantity(item) == ToNumber(item.Quantity)

\* a mutant of TrackInvoice: the invoice id is added without the test
TrackInvoice_Untested(groups, item) == groups \cup {item.invoice_id}

\* if (item.invoice_id) invoiceGroups.add(item.invoice_id)
TrackInvoice(groups, item) ==
  IF Truthy(item.invoice_id) THEN groups \cup {item.invoice_id} ELSE groups

\* the forEach over factureData, from the accumulators' initial values
RECURSIVE ForEachLine(_, _)
ForEachLine(lines, acc) ==
  IF lines = <<>> THEN acc
  ELSE ForEachLine(Tail(lines),
         [totalSpent |-> acc.totalSpent + ItemSpent(Head(lines)),
          totalItems |-> acc.totalItems + ItemQuantity(Head(lines)),
          invoiceGroups |-> TrackInvoice(acc.invoiceGroups, Head(lines))])

Statistics(data) ==
  LET start == [totalSpent |-> 0, totalItems |-> 0, invoiceGroups |-> {}]
  IN  IF data # NullRows /\ Len(data) > 0 THEN ForEachLine(data, start) ELSE start

\* useEffect: fetchDashboardData() is called and awaits supabase.auth.getUser()
DashMount ==
  /\ dashPc = "unmounted"
  /\ dashPc' = "getUser"
  /\ UNCHANGED <<factureData, dashboardData>>
  /\ UNCHANGED <<categoryVars, analyticsVars, queryVars, appVars, signupVars, historyVars, layoutVars, syncVars, pageVars, uploadVars, testVars>>

\* catch (error): setDashboardData(prev => ({ ...prev, loading: false }))
DashCaught ==
  /\ dashPc' = "caught"
  /\ dashboardData' = [dashboardData EXCEPT !.loading = FALSE]
  /\ UNCHANGED factureData

\* getUser answers: a user with an email, no user (return), or it throws
DashGetUser ==
  /\ dashPc = "getUser"
  /\ \/ dashPc' = "profile" /\ UNCHANGED <<factureData, dashboardData>>
     \/ dashPc' = "returned" /\ UNCHANGED <<factureData, dashboardData>>
     \/ DashCaught
  /\ UNCHANGED <<categoryVars, analyticsVars, queryVars, appVars, signupVars, historyVars, layoutVars, syncVars, pageVars, uploadVars, testVars>>

\* the users query answers: a profile with a name, none (return), or it throws
DashProfile ==
  /\ dashPc = "profile"
  /\ \/ dashPc' = "facture" /\ UNCHANGED <<factureData, dashboardData>>
     \/ dashPc' = "returned" /\ UNCHANGED <<factureData, dashboardData>>
     \/ DashCaught
  /\ UNCHANGED <<categoryVars, analyticsVars, queryVars, appVars, signupVars, historyVars, layoutVars, syncVars, pageVars, uploadVars, testVars>>

\* the facture query answers: the client's lines, no data (an error), or it throws
DashFacture ==
  /\ dashPc = "facture"
  /\ \/ \E data \in FactureLists \cup {NullRows} :
          /\ factureData' = data
          /\ dashPc' = "forum"
          /\ UNCHANGED dashboardData
     \/ DashCaught
  /\ UNCHANGED <<categoryVars, analyticsVars, queryVars, appVars, signupVars, historyVars, layoutVars, syncVars, pageVars, uploadVars, testVars>>

\* the forum_posts and forum_replies queries answer, or one throws
DashForum ==
  /\ dashPc = "forum"
  /\ \/ dashPc' = "count" /\ UNCHANGED <<factureData, dashboardData>>
     \/ DashCaught
  /\ UNCHANGED <<categoryVars, analyticsVars, queryVars, appVars, signupVars, historyVars, layoutVars, syncVars, pageVars, uploadVars, testVars>>

\* the product_catalogues count answers and the statistics are computed and set,
\* or the count throws
DashCount ==
  /\ dashPc = "count"
  /\ \/ \E count \in {JsNull, Num(1)} :
          LET stats == Statistics(factureData)
          IN  /\ dashboardData' =
                   [totalSpent |-> stats.totalSpent,
                    totalOrders |-> Cardinality(stats.invoiceGroups),
                    totalItems |-> stats.totalItems,
                    userName |-> ProfileName,
                    cataloguesCount |-> ToNumber(OrZero(count)),
                    loading |-> FALSE]
              /\ dashPc' = "done"
              /\ UNCHANGED factureData
     \/ DashCaught
  /\ UNCHANGED <<categoryVars, analyticsVars, queryVars, appVars, signupVars, historyVars, layoutVars, syncVars, pageVars, uploadVars, testVars>>

\* ------------------------------------------- analytics dashboard: the KPIs

\* A Date column value that new Date() parses: age is the number of days it lies
\* before now, month its toISOString().slice(0, 7).
DateValue(age, month) == [t |-> "date", age |-> age, month |-> month]

MaxAnLines == 2

InitialKpis == [totalRevenue |-> 0, totalOrders |-> 0, totalItems |-> 0]

IdleAnalytics ==
  /\ anPc = "unmounted"
  /\ liveFactures = <<>>
  /\ anLoading = TRUE
  /\ anError = FALSE
  /\ selectedTimeframe = "all"
  /\ filteredFactures = <<>>
  /\ kpis = InitialKpis
  /\ monthlyRevenue = {}

\* value.toString().replace(/[^0-9.-]/g, '')
Cleaned(s) == SelectSeq(s, LAMBDA c : c \in Digits \cup {".", "-"})

\* the length of the longest prefix of digits
RECURSIVE DigitPrefix(_)
DigitPrefix(s) ==
  IF s = <<>> \/ Head(s) \notin Digits THEN 0 ELSE 1 + DigitPrefix(Tail(s))

\* parseFloat on a cleaned text without a decimal point, and isNaN(parsed) ? 0 :
\* parsed: an optional sign and the longest run of digits; no digit is NaN
ParseFloatOrZero(s) ==
  LET neg == s # <<>> /\ Head(s) = "-"
      body == IF neg THEN Tail(s) ELSE s
      n == DigitPrefix(body)
  IN  IF n = 0 THEN 0
      ELSE (IF neg THEN -1 ELSE 1) * DigitsValue(SubSeq(body, 1, n))

parseNumber(value) ==
  CASE value.t = "null" -> 0
    [] value.t = "num" -> value.n
    [] value.t = "str" -> ParseFloatOrZero(Cleaned(value.s))

\* parseDate: null for a missing, empty or unparseable date
parseDate(dateStr) == IF dateStr.t = "date" THEN dateStr ELSE JsNull

\* the number of days of each timeframe (30, 90, 365 * 24 * 60 * 60 * 1000 ms)
TimeframeDays(tf) ==
  CASE tf = "30d" -> 30 [] tf = "90d" -> 90 [] tf = "1y" -> 365

\* filterDataByTimeframe: the lines processAnalytics is given
filterDataByTimeframe(lines, tf) ==
  IF tf \in {"30d", "90d", "1y"}
  THEN SelectSeq(lines, LAMBDA item :
         /\ parseDate(item.Date) # JsNull
         /\ parseDate(item.Date).age <= TimeframeDays(tf))
  ELSE lines

\* factures.map(f => ({ ... }))
Normalized(f) ==
  [date |-> f.Date,
   quantity |-> parseNumber(f.Quantity),
   price |-> parseNumber(f.Price),
   total_amount |-> parseNumber(f.Quantity) * parseNumber(f.Price)]

\* one pass of normalizedData.forEach in the Monthly Revenue Analysis
MonthlyStep(acc, item) ==
  LET date == parseDate(item.date)
  IN  IF date = JsNull THEN acc
      ELSE LET old == IF date.month \in DOMAIN acc.revenueByMonth
                      THEN acc.revenueByMonth[date.month]
                      ELSE [revenue |-> 0, orders |-> 0]
               new == [revenue |-> old.revenue + item.total_amount,
                       orders |-> old.orders + 1]
           IN  [revenueByMonth |->
                  [m \in DOMAIN acc.revenueByMonth \cup {date.month} |->
                     IF m = date.month THEN new ELSE acc.revenueByMonth[m]],
                totalRev |-> acc.totalRev + item.total_amount,
                totalQty |-> acc.totalQty + item.quantity]

RECURSIVE MonthlyLoop(_, _)
MonthlyLoop(items, acc) ==
  IF items = <<>> THEN acc
  ELSE MonthlyLoop(Tail(items), MonthlyStep(acc, Head(items)))

\* processAnalytics: the monthly rollup and the KPIs it sets
processAnalytics(factures) ==
  LET normalizedData == [i \in 1..Len(factures) |-> Normalized(factures[i])]
      acc == MonthlyLoop(normalizedData,
               [revenueByMonth |-> <<>>, totalRev |-> 0, totalQty |-> 0])
  IN  [monthlyRevenue |->
         { [month |-> m, revenue |-> acc.revenueByMonth[m].revenue,
            orders |-> acc.revenueByMonth[m].orders] : m \in DOMAIN acc.revenueByMonth },
       kpis |-> [totalRevenue |-> acc.totalRev,
                 totalOrders |-> Len(normalizedData),
                 totalItems |-> acc.totalQty]]

\* The effect on [filterDataByTimeframe, liveFactures]: with at least one live line,
\* filter and process; with none, nothing is set.
AnEffect(live, tf) ==
  IF Len(live) > 0
  THEN LET filtered == filterDataByTimeframe(live, tf)
           out == processAnalytics(filtered)
       IN  /\ filteredFactures' = filtered
           /\ kpis' = out.kpis
           /\ monthlyRevenue' = out.monthlyRevenue
  ELSE UNCHANGED <<filteredFactures, kpis, monthlyRevenue>>

\* mount (useEffect) or the Refresh / Try Again button: fetchDataAndProcess starts
AnFetchStart ==
  /\ anPc \in {"unmounted", "shown"}
  /\ anPc' = "fetching"
  /\ anLoading' = TRUE
  /\ anError' = FALSE
  /\ UNCHANGED <<liveFactures, selectedTimeframe, filteredFactures, kpis,
                 monthlyRevenue, products>>
  /\ UNCHANGED <<argProduct, retCategory, dashVars, queryVars, appVars, signupVars, historyVars, layoutVars, syncVars, pageVars, uploadVars, testVars>>

\* both queries answer; the states are set and the effect runs
AnFetchReturns ==
  /\ anPc = "fetching"
  /\ \E data \in UNION { [1..n -> [Quantity : { Str(<<"3">>), Str(<<"x">>) },
                                      Price : { Num(5), JsNull },
                                      Date : { JsNull, DateValue(100, "2026-07") }]] :
                            n \in 0..MaxAnLines },
        table \in { <<[itemName |-> <<"a">>, category |-> <<"X">>]>> } :
       /\ liveFactures' = data
       /\ products' = table
       /\ AnEffect(data, selectedTimeframe)
  /\ anPc' = "shown"
  /\ anLoading' = FALSE
  /\ UNCHANGED <<anError, selectedTimeframe>>
  /\ UNCHANGED <<argProduct, retCategory, dashVars, queryVars, appVars, signupVars, historyVars, layoutVars, syncVars, pageVars, uploadVars, testVars>>

\* one of the queries answers with an error: catch sets error
AnFetchFails ==
  /\ anPc = "fetching"
  /\ anPc' = "shown"
  /\ anLoading' = FALSE
  /\ anError' = TRUE
  /\ UNCHANGED <<liveFactures, selectedTimeframe, filteredFactures, kpis,
                 monthlyRevenue, products>>
  /\ UNCHANGED <<argProduct, retCategory, dashVars, queryVars, appVars, signupVars, historyVars, layoutVars, syncVars, pageVars, uploadVars, testVars>>

\* a timeframe button: setSelectedTimeframe(key), and the effect runs
AnSelectTimeframe ==
  /\ anPc = "shown" /\ ~anError
  /\ \E tf \in {"all", "30d", "90d", "1y"} :
       /\ tf # selectedTimeframe
       /\ selectedTimeframe' = tf
       /\ AnEffect(liveFactures, tf)
  /\ UNCHANGED <<anPc, liveFactures, anLoading, anError, products>>
  /\ UNCHANGED <<argProduct, retCategory, dashVars, queryVars, appVars, signupVars, historyVars, layoutVars, syncVars, pageVars, uploadVars, testVars>>

\* ------------------------------------------- the keyword query responder

\* the keywords of processNaturalLanguageQuery
Keyword ==
  [
    top |->
       <<"t", "o", "p">>,
    highest |->
       <<"h", "i", "g", "h", "e", "s", "t">>,
    customer |->
       <<"c", "u", "s", "t", "o", "m", "e", "r">>,
    client |->
       <<"c", "l", "i", "e", "n", "t">>,
    product |->
       <<"p", "r", "o", "d", "u", "c", "t">>,
    item |->
       <<"i", "t", "e", "m">>,
    best |->
       <<"b", "e", "s", "t">>,
    selling |->
       <<"s", "e", "l", "l", "i", "n", "g">>,
    churn |->
       <<"c", "h", "u", "r", "n">>,
    havent |->
       <<"h", "a", "v", "e", "n", "'", "t">>,
    order |->
       <<"o", "r", "d", "e", "r">>,
    revenue |->
       <<"r", "e", "v", "e", "n", "u", "e">>,
    trend |->
       <<"t", "r", "e", "n", "d">>,
    growth |->
       <<"g", "r", "o", "w", "t", "h">>,
    category |->
       <<"c", "a", "t", "e", "g", "o", "r", "y">>,
    product_type |->
       <<"p", "r", "o", "d", "u", "c", "t", " ", "t", "y", "p", "e">>,
    total_revenue |->
       <<"t", "o", "t", "a", "l", " ", "r", "e", "v", "e", "n", "u", "e">>,
    business_overview |->
       <<"b", "u", "s", "i", "n", "e", "s", "s", " ", "o", "v", "e", "r", "v", "i",
       "e", "w">>,
    total_orders |->
       <<"t", "o", "t", "a", "l", " ", "o", "r", "d", "e", "r", "s">>,
    unique_clients |->
       <<"u", "n", "i", "q", "u", "e", " ", "c", "l", "i", "e", "n", "t", "s">>,
    average_order_value |->
       <<"a", "v", "e", "r", "a", "g", "e", " ", "o", "r", "d", "e", "r", " ", "v",
       "a", "l", "u", "e">>,
    product_category |->
       <<"p", "r", "o", "d", "u", "c", "t", " ", "c", "a", "t", "e", "g", "o", "r",
       "y">>,
    performance |->
       <<"p", "e", "r", "f", "o", "r", "m", "a", "n", "c", "e">>,
    for |->
       <<"f", "o", "r">>
  ]

\* The questions typed in the model.
Typed ==
  [
    \* "Show me top 5 customers by revenue": suggestedQueries[0]
    TopCustomers |->
       <<"S", "h", "o", "w", " ", "m", "e", " ", "t", "o", "p", " ", "5", " ", "c",
       "u", "s", "t", "o", "m", "e", "r", "s", " ", "b", "y", " ", "r", "e", "v",
       "e", "n", "u", "e">>,
    \* "Which product categories are growing fastest?": suggestedQueries[5]
    GrowingCategories |->
       <<"W", "h", "i", "c", "h", " ", "p", "r", "o", "d", "u", "c", "t", " ", "c",
       "a", "t", "e", "g", "o", "r", "i", "e", "s", " ", "a", "r", "e", " ", "g",
       "r", "o", "w", "i", "n", "g", " ", "f", "a", "s", "t", "e", "s", "t", "?">>,
    \* "What is the average order value?": suggestedQueries[6]
    AverageOrderValue |->
       <<"W", "h", "a", "t", " ", "i", "s", " ", "t", "h", "e", " ", "a", "v", "e",
       "r", "a", "g", "e", " ", "o", "r", "d", "e", "r", " ", "v", "a", "l", "u",
       "e", "?">>,
    \* "Top clients: total revenue growth": the keywords of rules 1, 4 and 5, with a capital
    TopClientsGrowth |->
       <<"T", "o", "p", " ", "c", "l", "i", "e", "n", "t", "s", ":", " ", "t", "o",
       "t", "a", "l", " ", "r", "e", "v", "e", "n", "u", "e", " ", "g", "r", "o",
       "w", "t", "h">>,
    \* "top product category performance": the keywords of rules 2 and 6
    TopProductCategory |->
       <<"t", "o", "p", " ", "p", "r", "o", "d", "u", "c", "t", " ", "c", "a", "t",
       "e", "g", "o", "r", "y", " ", "p", "e", "r", "f", "o", "r", "m", "a", "n",
       "c", "e">>,
    \* "churn and category performance": the keywords of rules 3 and 6
    ChurnByCategory |->
       <<"c", "h", "u", "r", "n", " ", "a", "n", "d", " ", "c", "a", "t", "e", "g",
       "o", "r", "y", " ", "p", "e", "r", "f", "o", "r", "m", "a", "n", "c", "e">>,
    \* "total revenue growth": the keywords of rules 4 and 5
    TotalRevenueGrowth |->
       <<"t", "o", "t", "a", "l", " ", "r", "e", "v", "e", "n", "u", "e", " ", "g",
       "r", "o", "w", "t", "h">>,
    \* "revenue trend by category for x": a category revenue trend that names the category x
    CategoryTrendForX |->
       <<"r", "e", "v", "e", "n", "u", "e", " ", "t", "r", "e", "n", "d", " ", "b",
       "y", " ", "c", "a", "t", "e", "g", "o", "r", "y", " ", "f", "o", "r", " ",
       "x">>,
    \* "revenue growth by product type": a category revenue trend that names no category
    ProductTypeGrowth |->
       <<"r", "e", "v", "e", "n", "u", "e", " ", "g", "r", "o", "w", "t", "h", " ",
       "b", "y", " ", "p", "r", "o", "d", "u", "c", "t", " ", "t", "y", "p", "e">>,
    \* "category performance": the keywords of rule 6 only
    CategoryPerformance |->
       <<"c", "a", "t", "e", "g", "o", "r", "y", " ", "p", "e", "r", "f", "o", "r",
       "m", "a", "n", "c", "e">>,
    \* " ": white space only
    Blank |->
       <<" ">>
  ]

Questions ==
  { Typed.TopCustomers, Typed.GrowingCategories, Typed.AverageOrderValue, Typed.TopClientsGrowth,
    Typed.TopProductCategory, Typed.ChurnByCategory, Typed.TotalRevenueGrowth,
    Typed.CategoryTrendForX, Typed.ProductTypeGrowth, Typed.CategoryPerformance, Typed.Blank }

MaxHistory == 2

\* result: null
NoResult == [type |-> "none", title |-> "", handler |-> ""]
\* no handleSubmitQuery call is waiting
NoClosure == [id |-> 0]

IdleQuery ==
  /\ query = <<>>
  /\ queryHistory = <<>>
  /\ isProcessing = FALSE
  /\ aiFactureData = <<>>
  /\ aiProducts = <<>>
  /\ aiClosure = NoClosure

\* the conditions of the dispatch rules, in the order of the if statements
DispatchOrder ==
  << "topCustomers", "topProducts", "churnRisk", "revenueTrend",
     "businessOverview", "categoryPerformance" >>

RuleCondition(rule, lowercaseQuery) ==
  LET has(w) == Includes(lowercaseQuery, w)
  IN  CASE rule = "topCustomers" ->
             (has(Keyword.top) \/ has(Keyword.highest)) /\ (has(Keyword.customer) \/ has(Keyword.client))
        [] rule = "topProducts" ->
             (has(Keyword.product) \/ has(Keyword.item))
               /\ (has(Keyword.best) \/ has(Keyword.selling) \/ has(Keyword.top))
        [] rule = "churnRisk" ->
             has(Keyword.churn) \/ (has(Keyword.havent) /\ has(Keyword.order))
        [] rule = "revenueTrend" ->
             has(Keyword.revenue) /\ (has(Keyword.trend) \/ has(Keyword.growth))
        [] rule = "businessOverview" ->
             \/ has(Keyword.total_revenue) \/ has(Keyword.business_overview)
             \/ has(Keyword.total_orders) \/ has(Keyword.unique_clients)
             \/ has(Keyword.average_order_value)
        [] rule = "categoryPerformance" ->
             (has(Keyword.category) \/ has(Keyword.product_category))
               /\ (has(Keyword.performance) \/ has(Keyword.top))

\* The rules whose handlers a question reaches, scanning the if statements from
\* the last one: each later return would be overridden by an earlier one.
MatchedRule_LastWins(lowercaseQuery) ==
  LET hits == {i \in DOMAIN DispatchOrder : RuleCondition(DispatchOrder[i], lowercaseQuery)}
  IN  IF hits = {} THEN 0 ELSE CHOOSE i \in hits : \A j \in hits : j <= i

\* the index of the first if statement whose condition holds, 0 when none does
MatchedRule(lowercaseQuery) ==
  FindIndex({i \in DOMAIN DispatchOrder : RuleCondition(DispatchOrder[i], lowercaseQuery)})

\* lowercaseQuery.match(/for\s+([a-zA-Z\s]+)$/) and categoryMatch[1].trim(): the
\* leftmost "for" that white space and then only letters and white space follow
\* to the end of the text; '' when there is no match.
CategoryName(lowercaseQuery) ==
  LET n == Len(lowercaseQuery)
      rest(i) == SubSeq(lowercaseQuery, i + Len(Keyword.for), n)
      hits == { i \in 1..(n - Len(Keyword.for) + 1) :
                  /\ SubSeq(lowercaseQuery, i, i + Len(Keyword.for) - 1) = Keyword.for
                  /\ Len(rest(i)) >= 2
                  /\ rest(i)[1] = " "
                  /\ \A k \in 1..Len(rest(i)) :
                       LowerChar(rest(i)[k]) \in
                         { "a", "b", "c", "d", "e", "f", "g", "h", "i", "j", "k", "l", "m",
                           "n", "o", "p", "q", "r", "s", "t", "u", "v", "w", "x", "y", "z",
                           " " } }
      first == FindIndex(hits)
  IN  IF first = 0 THEN <<>> ELSE Trim(rest(first))

\* processCategoryRevenueTrendQuery: filteredByCategory
FilteredByCategory(categoryName, data, table) ==
  SelectSeq(data, LAMBDA item :
    Includes(ToLowerCase(getProductCategory(item.Product, table)),
             ToLowerCase(categoryName)))

\* processOverallRevenueTrendQuery, were it to answer an empty list with a text
OverallRevenueTrend_TextWhenEmpty(data) ==
  IF data = <<>>
  THEN [type |-> "text", title |-> "Overall Monthly Revenue Trend",
        handler |-> "processOverallRevenueTrendQuery"]
  ELSE [type |-> "chart", title |-> "Overall Monthly Revenue Trend",
        handler |-> "processOverallRevenueTrendQuery"]

\* processOverallRevenueTrendQuery: the type and the title of its result
OverallRevenueTrend(data) ==
  [type |-> "chart", title |-> "Overall Monthly Revenue Trend",
   handler |-> "processOverallRevenueTrendQuery"]

\* processCategoryRevenueTrendQuery: the type and the title of its result (the
\* titles are written without the values they interpolate)
CategoryRevenueTrend(categoryName, data, table) ==
  IF Len(FilteredByCategory(categoryName, data, table)) = 0
  THEN [type |-> "text", title |-> "No Data for Category",
        handler |-> "processCategoryRevenueTrendQuery"]
  ELSE [type |-> "chart", title |-> "Monthly Revenue Trend for Category",
        handler |-> "processCategoryRevenueTrendQuery"]

\* processNaturalLanguageQuery: the result of the handler the first satisfied
\* rule calls, over the factureData and products of the render that submitted
processNaturalLanguageQuery(question, data, table) ==
  LET lowercaseQuery == ToLowerCase(question)
      k == MatchedRule(lowercaseQuery)
      rule == IF k = 0 THEN "none" ELSE DispatchOrder[k]
  IN  CASE rule = "topCustomers" ->
             [type |-> "table", title |-> "Top Customers by Revenue",
              handler |-> "processTopCustomersQuery"]
        [] rule = "topProducts" ->
             [type |-> "table", title |-> "Top Best Selling Products",
              handler |-> "processTopProductsQuery"]
        [] rule = "churnRisk" ->
             [type |-> "table", title |-> "Customers at Risk of Churning",
              handler |-> "processChurnRiskQuery"]
        [] rule = "revenueTrend" ->
             IF Includes(lowercaseQuery, Keyword.category)
                  \/ Includes(lowercaseQuery, Keyword.product_type)
             THEN CategoryRevenueTrend(CategoryName(lowercaseQuery), data, table)
             ELSE OverallRevenueTrend(data)
        [] rule = "businessOverview" ->
             [type |-> "metric", title |-> "Overall Business Overview",
              handler |-> "processBusinessOverviewQuery"]
        [] rule = "categoryPerformance" ->
             [type |-> "table", title |-> "Top 5 Product Categories by Revenue",
              handler |-> "processTopCategoryPerformanceQuery"]
        [] rule = "none" ->
             [type |-> "text", title |-> "Query Not Understood", handler |-> ""]

\* onChange of the input, or a click on a suggestion: setQuery
QType ==
  /\ ~isProcessing
  /\ \E q \in Questions \cup {<<>>} :
       /\ q # query
       /\ query' = q
  /\ UNCHANGED <<queryHistory, isProcessing, aiFactureData, aiProducts, aiClosure>>
  /\ UNCHANGED <<categoryVars, dashVars, analyticsVars, appVars, signupVars, historyVars, layoutVars, syncVars, pageVars, uploadVars, testVars>>

\* handleSubmitQuery up to its await: the new entry is put first, and the call
\* keeps the question and the props of its render
QSubmit ==
  /\ ~(Trim(query) = <<>> \/ isProcessing)
  /\ Len(queryHistory) < MaxHistory
  /\ LET id == Len(queryHistory) + 1
     IN  /\ queryHistory' =
               <<[id |-> id, question |-> query, result |-> NoResult,
                  processing |-> TRUE]>> \o queryHistory
         /\ aiClosure' = [id |-> id, question |-> query,
                          factureData |-> aiFactureData, products |-> aiProducts]
  /\ isProcessing' = TRUE
  /\ query' = <<>>
  /\ UNCHANGED <<aiFactureData, aiProducts>>
  /\ UNCHANGED <<categoryVars, dashVars, analyticsVars, appVars, signupVars, historyVars, layoutVars, syncVars, pageVars, uploadVars, testVars>>

\* handleSubmitQuery after the delay: the result is put in the entry of its id
QAnswer ==
  /\ aiClosure # NoClosure
  /\ LET result == processNaturalLanguageQuery(aiClosure.question,
                     aiClosure.factureData, aiClosure.products)
     IN  queryHistory' =
           [i \in DOMAIN queryHistory |->
              IF queryHistory[i].id = aiClosure.id
              THEN [queryHistory[i] EXCEPT !.result = result, !.processing = FALSE]
              ELSE queryHistory[i]]
  /\ isProcessing' = FALSE
  /\ aiClosure' = NoClosure
  /\ UNCHANGED <<query, aiFactureData, aiProducts>>
  /\ UNCHANGED <<categoryVars, dashVars, analyticsVars, appVars, signupVars, historyVars, layoutVars, syncVars, pageVars, uploadVars, testVars>>

\* the dashboard renders the responder with other filteredFactures or products
QProps ==
  /\ \E data \in { <<>>, <<[Product |-> <<"a">>]>>, <<[Product |-> Null]>> },
        table \in { <<>>, <<[itemName |-> <<"a">>, category |-> <<"X">>]>> } :
       /\ <<data, table>> # <<aiFactureData, aiProducts>>
       /\ aiFactureData' = data
       /\ aiProducts' = table
  /\ UNCHANGED <<query, queryHistory, isProcessing, aiClosure>>
  /\ UNCHANGED <<categoryVars, dashVars, analyticsVars, appVars, signupVars, historyVars, layoutVars, syncVars, pageVars, uploadVars, testVars>>

\* --------------------------------------------- the app shell: auth and routes

NoUser == "none"
\* a null userType or user_type
NoRole == "NULL"

\* The accounts of the auth service, and the user_type of each one's row of the
\* users table: an admin, a client, and a row whose user_type is null.
UserTypeOf(u) ==
  CASE u = "ada" -> "admin" [] u = "cli" -> "client" [] u = "nul" -> NoRole

\* fetchUserProfile: the row, or null on an error, no row or the timeout
NoProfile == [found |-> FALSE]
Profile(u) == [found |-> TRUE, name |-> u, user_type |-> UserTypeOf(u)]

\* the routes of <Routes> wrapped in <ProtectedRoute>
ProtectedPaths ==
  { "/analytics", "/sync-manager", "/catalogue-upload", "/catalogues", "/users",
    "/dashboard", "/mindmap", "/forum", "/csv", "/zoho", "/history" }

\* the locations the browser visits in the model
Paths == {"/login", "/dashboard", "/analytics", "/catalogues", "/catalogue-upload"}

\* the catalogues that exist; the file name of each is its id
Catalogues == {"c1"}

MaxFetches == 2

NoDelete == [catalogue |-> "none"]

\* App as mounted by a page load at "/login", over the rows and files uploaded
\* before
IdleApp ==
  /\ appPc = "getSession"
  /\ authSession = NoUser
  /\ user = NoUser
  /\ userType = NoRole
  /\ userName = ""
  /\ checking = TRUE
  /\ fetches = <<>>
  /\ path = "/login"
  /\ catalogueRows = Catalogues
  /\ storageObjects = Catalogues
  /\ catalogues = {}
  /\ deleteLog = NoDelete

\* !!userType
TruthyRole(t) == t # NoRole /\ t # ""

\* isAuthenticated, were it to test the session user only
IsAuthenticated_UserOnly == user # NoUser /\ ~checking

\* const isAuthenticated = !!user && !!userType && !checking
IsAuthenticated == user # NoUser /\ TruthyRole(userType) /\ ~checking

\* ProtectedRoute: what it renders
ProtectedRoute(isAuthenticated, isCheckingAuth) ==
  IF isCheckingAuth THEN "loader"
  ELSE IF isAuthenticated THEN "content" ELSE "redirect"

\* App's render for a location: the loader while checking, else the route
Render(p) ==
  IF checking THEN "loader"
  ELSE IF p \in ProtectedPaths THEN ProtectedRoute(IsAuthenticated, checking)
  ELSE "public"

\* processSessionAndSetStatus up to its await: without a session user the states
\* are cleared and checking ends; with one, a profile fetch starts
ProcessSessionStart(sessionUser) ==
  IF sessionUser = NoUser
  THEN /\ user' = NoUser
       /\ userType' = NoRole
       /\ userName' = ""
       /\ checking' = FALSE
       /\ UNCHANGED fetches
  ELSE /\ Len(fetches) < MaxFetches
       /\ fetches' = Append(fetches, sessionUser)
       /\ UNCHANGED <<user, userType, userName, checking>>

\* initializeAuth: getSession answers with the session, or with an error
InitializeAuth ==
  /\ appPc = "getSession"
  /\ appPc' = "listening"
  /\ \E failed \in BOOLEAN :
       ProcessSessionStart(IF failed THEN NoUser ELSE authSession)
  /\ UNCHANGED <<authSession, path, catalogueRows, storageObjects, catalogues, deleteLog>>
  /\ UNCHANGED <<categoryVars, dashVars, analyticsVars, queryVars, signupVars, historyVars, layoutVars, syncVars, pageVars, uploadVars, testVars>>

\* the onAuthStateChange listener: a sign-in, a sign-out, or an event that
\* repeats the session
OnAuthStateChange ==
  /\ \E session \in {"ada", "cli", "nul", NoUser} :
       /\ authSession' = session
       /\ ProcessSessionStart(session)
  /\ UNCHANGED <<appPc, path, catalogueRows, storageObjects, catalogues, deleteLog>>
  /\ UNCHANGED <<categoryVars, dashVars, analyticsVars, queryVars, signupVars, historyVars, layoutVars, syncVars, pageVars, uploadVars, testVars>>

\* a mutant of ProcessSessionEnd: a null profile clears the states and leaves
\* checking as it is
ProcessSessionEnd_StillChecking(i, profile) ==
  /\ fetches' = SubSeq(fetches, 1, i - 1) \o SubSeq(fetches, i + 1, Len(fetches))
  /\ IF profile.found
     THEN /\ user' = fetches[i]
          /\ userType' = profile.user_type
          /\ userName' = profile.name
          /\ checking' = FALSE
     ELSE /\ user' = NoUser
          /\ userType' = NoRole
          /\ userName' = ""
          /\ UNCHANGED checking

\* processSessionAndSetStatus after the await of the i-th pending
\* fetchUserProfile: the profile sets the states, a null profile clears them;
\* then setChecking(false)
ProcessSessionEnd(i, profile) ==
  /\ fetches' = SubSeq(fetches, 1, i - 1) \o SubSeq(fetches, i + 1, Len(fetches))
  /\ IF profile.found
     THEN /\ user' = fetches[i]
          /\ userType' = profile.user_type
          /\ userName' = profile.name
     ELSE /\ user' = NoUser
          /\ userType' = NoRole
          /\ userName' = ""
  /\ checking' = FALSE

\* a pending fetchUserProfile returns: the row, or null on an error, no row
\* or the 10 s timeout
ProfileReturns ==
  /\ \E i \in DOMAIN fetches, answered \in BOOLEAN :
       ProcessSessionEnd(i, IF answered THEN Profile(fetches[i]) ELSE NoProfile)
  /\ UNCHANGED <<appPc, authSession, path, catalogueRows, storageObjects, catalogues,
                 deleteLog>>
  /\ UNCHANGED <<categoryVars, dashVars, analyticsVars, queryVars, signupVars, historyVars, layoutVars, syncVars, pageVars, uploadVars, testVars>>

\* a page load at p: App mounts anew
FreshMount(p) ==
  /\ appPc' = "getSession"
  /\ user' = NoUser
  /\ userType' = NoRole
  /\ userName' = ""
  /\ checking' = TRUE
  /\ fetches' = <<>>
  /\ path' = p
  /\ catalogues' = {}

\* handleLogout from the dashboard: signOut (which may answer with an error),
\* the states are cleared, and window.location.href = '/login' loads the page
handleLogout ==
  /\ path = "/dashboard" /\ Render(path) = "content"
  /\ \E failed \in BOOLEAN :
       authSession' = IF failed THEN authSession ELSE NoUser
  /\ FreshMount("/login")
  /\ UNCHANGED <<catalogueRows, storageObjects, deleteLog>>
  /\ UNCHANGED <<categoryVars, dashVars, analyticsVars, queryVars, signupVars, historyVars, layoutVars, syncVars, pageVars, uploadVars, testVars>>

\* the address bar, or a reload: the page loads at p
OpenUrl ==
  /\ \E p \in Paths : FreshMount(p)
  /\ UNCHANGED <<authSession, catalogueRows, storageObjects, deleteLog>>
  /\ UNCHANGED <<categoryVars, dashVars, analyticsVars, queryVars, signupVars, historyVars, layoutVars, syncVars, pageVars, uploadVars, testVars>>

\* navigate(): a link or button of the rendered page; the ones to
\* "/catalogue-upload" are rendered for an admin only
NavigateTo ==
  /\ Render(path) \in {"content", "public"}
  /\ \E p \in Paths :
       /\ p # path
       /\ p = "/catalogue-upload" => userType = "admin"
       /\ path' = p
  /\ catalogues' = {}
  /\ UNCHANGED <<appPc, authSession, user, userType, userName, checking, fetches,
                 catalogueRows, storageObjects, deleteLog>>
  /\ UNCHANGED <<categoryVars, dashVars, analyticsVars, queryVars, signupVars, historyVars, layoutVars, syncVars, pageVars, uploadVars, testVars>>

\* <Navigate to="/login" replace />
Redirect ==
  /\ Render(path) = "redirect"
  /\ path' = "/login"
  /\ catalogues' = {}
  /\ UNCHANGED <<appPc, authSession, user, userType, userName, checking, fetches,
                 catalogueRows, storageObjects, deleteLog>>
  /\ UNCHANGED <<categoryVars, dashVars, analyticsVars, queryVars, signupVars, historyVars, layoutVars, syncVars, pageVars, uploadVars, testVars>>

\* CatalogueUploader's fetchCatalogues on mount: the rows are listed
fetchCatalogues ==
  /\ path = "/catalogue-upload" /\ Render(path) = "content"
  /\ catalogues # catalogueRows
  /\ catalogues' = catalogueRows
  /\ UNCHANGED <<appPc, authSession, user, userType, userName, checking, fetches, path,
                 catalogueRows, storageObjects, deleteLog>>
  /\ UNCHANGED <<categoryVars, dashVars, analyticsVars, queryVars, signupVars, historyVars, layoutVars, syncVars, pageVars, uploadVars, testVars>>

\* deleteCatalogue, confirmed, on a listed catalogue: the storage removal may
\* answer with an error, which is only logged; an error of the row's deletion
\* is thrown to the "Delete Failed" toast; else "Deleted" and fetchCatalogues
deleteCatalogue ==
  /\ path = "/catalogue-upload" /\ Render(path) = "content"
  /\ \E catalogue \in catalogues, storageError \in BOOLEAN, error \in BOOLEAN :
       /\ storageObjects' = IF storageError THEN storageObjects
                            ELSE storageObjects \ {catalogue}
       /\ catalogueRows' = IF error THEN catalogueRows ELSE catalogueRows \ {catalogue}
       /\ deleteLog' = [catalogue |-> catalogue, by |-> userType,
                        toast |-> IF error THEN "Delete Failed" ELSE "Deleted"]
       /\ catalogues' = IF error THEN catalogues ELSE catalogueRows'
  /\ UNCHANGED <<appPc, authSession, user, userType, userName, checking, fetches, path>>
  /\ UNCHANGED <<categoryVars, dashVars, analyticsVars, queryVars, signupVars, historyVars, layoutVars, syncVars, pageVars, uploadVars, testVars>>

\* ------------------------------------------------------------ the signup form

\* SignUpForm as mounted, over an auth service and a users table without accounts
IdleSignup ==
  /\ suPc = "form"
  /\ suEmail = ""
  /\ suName = <<>>
  /\ suError = ""
  /\ suLoading = FALSE
  /\ suUser = NoUser
  /\ suAlert = ""
  /\ suPath = "/signup"
  /\ authAccounts = {}
  /\ usersTable = {}

\* onChange of the name and email inputs
SuType ==
  /\ suPath = "/signup" /\ ~suLoading
  /\ \E e \in {"e1", "e2"}, n \in { <<"A">>, <<" ", "A">>, <<" ">> } :
       /\ <<e, n>> # <<suEmail, suName>>
       /\ suEmail' = e
       /\ suName' = n
  /\ UNCHANGED <<suPc, suError, suLoading, suUser, suAlert, suPath, authAccounts, usersTable>>
  /\ UNCHANGED <<categoryVars, dashVars, analyticsVars, queryVars, appVars, historyVars, layoutVars, syncVars, pageVars, uploadVars, testVars>>

\* handleSubmit up to the await of supabase.auth.signUp; the form submits once
\* its required fields are filled
SuSubmit ==
  /\ suPath = "/signup" /\ suPc = "form" /\ ~suLoading
  /\ suEmail # "" /\ suName # <<>>
  /\ suPc' = "signUp"
  /\ suError' = ""
  /\ suLoading' = TRUE
  /\ UNCHANGED <<suEmail, suName, suUser, suAlert, suPath, authAccounts, usersTable>>
  /\ UNCHANGED <<categoryVars, dashVars, analyticsVars, queryVars, appVars, historyVars, layoutVars, syncVars, pageVars, uploadVars, testVars>>

\* signUp answers with an error (always so for a registered email): it is thrown
\* to the catch block
SuSignUpFails ==
  /\ suPc = "signUp"
  /\ suPc' = "form"
  /\ suError' = "signUpError"
  /\ suLoading' = FALSE
  /\ UNCHANGED <<suEmail, suName, suUser, suAlert, suPath, authAccounts, usersTable>>
  /\ UNCHANGED <<categoryVars, dashVars, analyticsVars, queryVars, appVars, historyVars, layoutVars, syncVars, pageVars, uploadVars, testVars>>

\* signUp succeeds without data.user (verification pending): the alert, the
\* navigation to /login, and the return
SuSignUpPending ==
  /\ suPc = "signUp"
  /\ suEmail \notin authAccounts
  /\ authAccounts' = authAccounts \cup {suEmail}
  /\ suAlert' = "Account created! Please check your email"
  /\ suPath' = "/login"
  /\ suPc' = "form"
  /\ suLoading' = FALSE
  /\ UNCHANGED <<suEmail, suName, suError, suUser, usersTable>>
  /\ UNCHANGED <<categoryVars, dashVars, analyticsVars, queryVars, appVars, historyVars, layoutVars, syncVars, pageVars, uploadVars, testVars>>

\* signUp succeeds with data.user: the insert into users is sent
SuSignUpReturnsUser ==
  /\ suPc = "signUp"
  /\ suEmail \notin authAccounts
  /\ authAccounts' = authAccounts \cup {suEmail}
  /\ suUser' = suEmail
  /\ suPc' = "insert"
  /\ UNCHANGED <<suEmail, suName, suError, suLoading, suAlert, suPath, usersTable>>
  /\ UNCHANGED <<categoryVars, dashVars, analyticsVars, queryVars, appVars, historyVars, layoutVars, syncVars, pageVars, uploadVars, testVars>>

\* the insert answers, with profileInsertError or without; both navigate
SuInsertReturns ==
  /\ suPc = "insert"
  /\ \E profileInsertError \in BOOLEAN :
       IF profileInsertError
       THEN /\ suError' = "Account created, but profile setup failed"
            /\ UNCHANGED <<usersTable, suAlert>>
       ELSE /\ usersTable' = usersTable \cup
                 {[id |-> suUser, email |-> suUser, name |-> Trim(suName),
                   user_type |-> "client"]}
            /\ suAlert' = "Account created and profile setup!"
            /\ UNCHANGED suError
  /\ suPath' = "/login"
  /\ suPc' = "form"
  /\ suUser' = NoUser
  /\ suLoading' = FALSE
  /\ UNCHANGED <<suEmail, suName, authAccounts>>
  /\ UNCHANGED <<categoryVars, dashVars, analyticsVars, queryVars, appVars, historyVars, layoutVars, syncVars, pageVars, uploadVars, testVars>>

\* the signup page is opened again: the form mounts anew
SuOpen ==
  /\ suPath = "/login"
  /\ suPath' = "/signup"
  /\ suEmail' = ""
  /\ suName' = <<>>
  /\ suError' = ""
  /\ suAlert' = ""
  /\ UNCHANGED <<suPc, suLoading, suUser, authAccounts, usersTable>>
  /\ UNCHANGED <<categoryVars, dashVars, analyticsVars, queryVars, appVars, historyVars, layoutVars, syncVars, pageVars, uploadVars, testVars>>


\* ------------------------------------------------------ the purchase history

MaxHLines == 2

HProductTables ==
  { <<>>,
    <<[itemName |-> <<"a">>, category |-> <<"X">>]>>,
    <<[itemName |-> <<"a">>, category |-> Null]>>,
    <<[itemName |-> <<"a">>, category |-> <<"X">>],
      [itemName |-> <<"a">>, category |-> <<"Y">>]>> }

IdleHistory ==
  /\ hPc = "unmounted"
  /\ hFacture = <<>>
  /\ hProducts = <<>>
  /\ history = <<>>
  /\ filteredHistory = <<>>
  /\ hLoading = TRUE
  /\ productCategories = <<>>
  /\ allCategories = {}
  /\ dateFilter = ""
  /\ productFilter = <<>>
  /\ categoryFilter = <<>>

\* productsData.forEach: categories[Item Name] = CF.Category || 'Uncategorized',
\* a later row of the same name overwriting an earlier one
CategoriesOf(productsData) ==
  LET keys == { productsData[i].itemName : i \in DOMAIN productsData }
      last(k) == CHOOSE i \in DOMAIN productsData :
                   /\ productsData[i].itemName = k
                   /\ \A j \in DOMAIN productsData :
                        productsData[j].itemName = k => j <= i
  IN  [ k \in keys |->
          IF Truthy(productsData[last(k)].category)
          THEN productsData[last(k)].category ELSE Uncategorized ]

\* categories[item.Product] || 'Uncategorized'
LineCategory(categories, item) ==
  IF item.Product \in DOMAIN categories /\ Truthy(categories[item.Product])
  THEN categories[item.Product] ELSE Uncategorized

\* item.invoice_id || 'no-invoice'
GroupKey(item) ==
  IF Truthy(item.invoice_id) THEN item.invoice_id
  ELSE <<"n", "o", "-", "i", "n", "v", "o", "i", "c", "e">>

\* factureData.forEach and Object.values(invoiceGroups): the groups in the order
\* their keys first appear, each with its items and total
InvoiceGroups(data, categories) ==
  LET keep == DOMAIN data
      firsts == { i \in keep : \A j \in keep : GroupKey(data[j]) = GroupKey(data[i]) => i <= j }
      rank(i) == Cardinality({ j \in firsts : j <= i })
      nth(n) == CHOOSE i \in firsts : rank(i) = n
      itemOf(i) == [invoice_id |-> data[i].invoice_id, Product |-> data[i].Product,
                    category |-> LineCategory(categories, data[i]),
                    total |-> ItemSpent(data[i])]
      itemsOf(key) == LET idx == { i \in keep : GroupKey(data[i]) = key }
                          pos(i) == Cardinality({ j \in idx : j <= i })
                      IN  [ n \in 1..Cardinality(idx) |->
                              itemOf(CHOOSE i \in idx : pos(i) = n) ]
      sum(items) == LET S[n \in 0..Len(items)] ==
                          IF n = 0 THEN 0 ELSE S[n - 1] + items[n].total
                    IN  S[Len(items)]
  IN  [ n \in 1..Cardinality(firsts) |->
          [id |-> GroupKey(data[nth(n)]), date |-> data[nth(n)].Date,
           items |-> itemsOf(GroupKey(data[nth(n)])),
           total |-> sum(itemsOf(GroupKey(data[nth(n)])))] ]

\* the effect on [history, dateFilter, productFilter, categoryFilter]
Filtered(hist, byDate, byProduct, byCategory) ==
  LET dated == SelectSeq(hist, LAMBDA inv : byDate = "" \/ inv.date = byDate)
      itemsLeft(inv) ==
        SelectSeq(inv.items, LAMBDA i :
          /\ byProduct = <<>> \/ Includes(ToLowerCase(i.Product), ToLowerCase(byProduct))
          /\ byCategory = <<>> \/ i.category = byCategory)
      total(items) == LET S[n \in 0..Len(items)] ==
                            IF n = 0 THEN 0 ELSE S[n - 1] + items[n].total
                      IN  S[Len(items)]
      kept == SelectSeq(dated, LAMBDA inv : Len(itemsLeft(inv)) > 0)
  IN  [ n \in 1..Len(kept) |->
          [kept[n] EXCEPT !.items = itemsLeft(kept[n]),
                          !.total = total(itemsLeft(kept[n]))] ]

\* useEffect: fetchHistory awaits getUser, the users query and the facture query
HMount ==
  /\ hPc = "unmounted"
  /\ hPc' = "facture"
  /\ UNCHANGED <<hFacture, hProducts, history, filteredHistory, hLoading,
                 productCategories, allCategories, dateFilter, productFilter,
                 categoryFilter>>
  /\ UNCHANGED <<categoryVars, dashVars, analyticsVars, queryVars, appVars, signupVars, layoutVars, syncVars, pageVars, uploadVars, testVars>>

\* no user email, no profile name, no line, or a throw: setLoading(false) only
HReturnsEarly ==
  /\ hPc = "facture"
  /\ hPc' = "shown"
  /\ hLoading' = FALSE
  /\ UNCHANGED <<hFacture, hProducts, history, filteredHistory, productCategories,
                 allCategories, dateFilter, productFilter, categoryFilter>>
  /\ UNCHANGED <<categoryVars, dashVars, analyticsVars, queryVars, appVars, signupVars, layoutVars, syncVars, pageVars, uploadVars, testVars>>

\* the facture and products queries answer: the groups are built and shown
HLoads ==
  /\ hPc = "facture"
  /\ \E data \in UNION { [1..n -> [invoice_id : { Null, <<>>, <<"A">>, <<"B">> },
                                      Product : { <<"a">>, <<"A">>, <<"a", "b">> },
                                      Quantity : {Num(2)}, Price : {Num(5)},
                                      Date : {"2026-01-05"}]] :
                            n \in 0..MaxHLines },
        productsData \in HProductTables :
       /\ Len(data) > 0
       /\ hFacture' = data
       /\ hProducts' = productsData
       /\ productCategories' = CategoriesOf(productsData)
       /\ history' = InvoiceGroups(data, CategoriesOf(productsData))
       /\ filteredHistory' =
            Filtered(history', dateFilter, productFilter, categoryFilter)
       /\ allCategories' =
            UNION { { history'[n].items[m].category : m \in DOMAIN history'[n].items } :
                      n \in DOMAIN history' } \ {<<>>}
  /\ hPc' = "shown"
  /\ hLoading' = FALSE
  /\ UNCHANGED <<dateFilter, productFilter, categoryFilter>>
  /\ UNCHANGED <<categoryVars, dashVars, analyticsVars, queryVars, appVars, signupVars, layoutVars, syncVars, pageVars, uploadVars, testVars>>

\* onChange of a filter input, and the effect
HSetFilter ==
  /\ hPc = "shown"
  /\ \E d \in { "", "2026-01-05", "2026-01-06" }, p \in { <<>>, <<"B">> },
        c \in allCategories \cup {<<>>} :
       /\ <<d, p, c>> # <<dateFilter, productFilter, categoryFilter>>
       /\ \/ (p = productFilter /\ c = categoryFilter)
          \/ (d = dateFilter /\ c = categoryFilter)
          \/ (d = dateFilter /\ p = productFilter)
       /\ dateFilter' = d
       /\ productFilter' = p
       /\ categoryFilter' = c
       /\ filteredHistory' = Filtered(history, d, p, c)
  /\ UNCHANGED <<hPc, hFacture, hProducts, history, hLoading, productCategories,
                 allCategories>>
  /\ UNCHANGED <<categoryVars, dashVars, analyticsVars, queryVars, appVars, signupVars, layoutVars, syncVars, pageVars, uploadVars, testVars>>

\* ----------------------------------------------------- the mind map layout

LEVEL_SPACING == 350
NODE_SPACING == 120
CATEGORY_SPACING == 180
PRODUCT_SPACING == 100

MaxItems == 4

\* the products rows of the model
MmProductTables ==
  LET r1 == [itemName |-> <<"A", " ">>, category |-> <<"X">>]
      r2 == [itemName |-> <<"a", "b">>, category |-> <<"Y">>]
  IN  { <<>>, <<r1, r2>>, <<[r2 EXCEPT !.category = Null]>> }

\* `client-${clientName}` and `category-${clientName}-${category}`
ClientId(clientName) == <<"c", "l", "i", "e", "n", "t", "-">> \o clientName
CategoryId(clientName, category) ==
  <<"c", "a", "t", "e", "g", "o", "r", "y", "-">> \o clientName \o <<"-">> \o category

UnknownClient ==
  <<"U", "n", "k", "n", "o", "w", "n", " ", "C", "l", "i", "e", "n", "t">>

\* the expansion states of the model: nothing, one client and one of its
\* categories, everything
MmExpansions ==
  LET clients == { ClientId(c) : c \in {<<"c">>, UnknownClient} }
      cats == { CategoryId(c, k) : c \in {<<"c">>, UnknownClient},
                                   k \in {<<"X">>, <<"Y">>, Uncategorized} }
  IN  { {}, {ClientId(<<"c">>), CategoryId(<<"c">>, <<"X">>)}, clients \cup cats }

IdleLayout ==
  /\ mmFacture = <<>>
  /\ mmProducts = <<>>
  /\ mmExpanded = {}
  /\ mmViewport = [width |-> 1200, height |-> 800]
  /\ mmNodes = <<>>

\* The groups of an object filled key by key: for the key of each element, in
\* order, the keys in the order they first appear, each with the places of
\* its elements.
GroupBy(keys) ==
  LET firsts == { i \in DOMAIN keys : \A j \in DOMAIN keys : keys[j] = keys[i] => i <= j }
      nth(n) == CHOOSE i \in firsts : Cardinality({ j \in firsts : j <= i }) = n
      places(key) == LET idx == { i \in DOMAIN keys : keys[i] = key }
                     IN  [ n \in 1..Cardinality(idx) |->
                             CHOOSE i \in idx : Cardinality({ j \in idx : j <= i }) = n ]
  IN  IF keys = <<>> THEN <<>>
      ELSE [ n \in 1..Cardinality(firsts) |->
               [key |-> keys[nth(n)], places |-> places(keys[nth(n)])] ]

\* groupByClient: item["Client Name"] || 'Unknown Client'
groupByClient(data) ==
  GroupBy([ i \in DOMAIN data |->
              IF Truthy(data[i].Client) THEN data[i].Client ELSE UnknownClient ])

\* groupByProductCategory, over the places of a client's items in data
groupByProductCategory(data, places, table) ==
  LET alnum(s) == SelectSeq(s, LAMBDA c : LowerChar(c) \in
                     {"a", "b", "c", "d", "e", "f", "g", "h", "i", "j", "k", "l", "m",
                      "n", "o", "p", "q", "r", "s", "t", "u", "v", "w", "x", "y", "z"}
                     \cup Digits)
      named == { i \in DOMAIN table : table[i].itemName # Null }
      exact(name) == FindIndex({ i \in named :
          Trim(ToLowerCase(table[i].itemName)) = Trim(ToLowerCase(name)) })
      clean(name) == FindIndex({ i \in named :
          ToLowerCase(alnum(table[i].itemName)) = ToLowerCase(alnum(name)) })
      partial(name) == FindIndex({ i \in named :
          \/ Includes(ToLowerCase(table[i].itemName), ToLowerCase(name))
          \/ Includes(ToLowerCase(name), ToLowerCase(table[i].itemName)) })
      found(name) == IF exact(name) # 0 THEN exact(name)
                     ELSE IF clean(name) # 0 THEN clean(name) ELSE partial(name)
      category(name) ==
        IF Len(table) = 0 \/ found(name) = 0 THEN Uncategorized
        ELSE IF Truthy(table[found(name)].category) THEN table[found(name)].category
        ELSE Uncategorized
      groups == GroupBy([ n \in DOMAIN places |-> category(data[places[n]].Product) ])
  IN  [ n \in DOMAIN groups |->
          [key |-> groups[n].key,
           places |-> [ m \in DOMAIN groups[n].places |-> places[groups[n].places[m]] ]] ]

\* a mutant of buildImprovedLayout's categoryStartY: the first category at the
\* client's y
CategoryStartY2_FromClient(clientY2, count) == clientY2

\* categoryStartY = clientY - ((categories.length - 1) * CATEGORY_SPACING) / 2
CategoryStartY2(clientY2, count) == clientY2 - (count - 1) * CATEGORY_SPACING

\* buildImprovedLayout: the nodes in the order they are pushed, each with the
\* source of the edge pushed after it.  Coordinates and sizes are held in half
\* pixels (twice their value), so that viewportWidth / 2 is exact.
buildImprovedLayout(data, table, expanded, viewportWidth, viewportHeight) ==
  LET centerX2 == viewportWidth
      centerY2 == viewportHeight
      rootId == <<"r", "o", "o", "t", "-", "b", "u", "s", "i", "n", "e", "s", "s">>
      node(id, parent, x2, y2, w, h) ==
        [id |-> id, source |-> parent, x2 |-> x2, y2 |-> y2,
         width2 |-> 2 * w, height2 |-> 2 * h]
      clients == groupByClient(data)
      clientStartX2 == centerX2 + 2 * LEVEL_SPACING
      clientStartY2 == centerY2 - (Len(clients) - 1) * NODE_SPACING
      categoryStartX2 == clientStartX2 + 2 * LEVEL_SPACING
      productStartX2 == categoryStartX2 + 2 * LEVEL_SPACING
      productNodes(clientName, group, categoryY2) ==
        LET productStartY2 == categoryY2 - (Len(group.places) - 1) * PRODUCT_SPACING
        IN  [ p \in DOMAIN group.places |->
                node(<<"p", "r", "o", "d", "u", "c", "t", "-">> \o clientName \o <<"-">>
                       \o group.key \o <<"-", "#">> \o <<ToString(group.places[p])>>,
                     CategoryId(clientName, group.key),
                     productStartX2,
                     productStartY2 + 2 * (p - 1) * PRODUCT_SPACING - 2 * 45, 220, 90) ]
      categoryNodes(clientName, places, clientY2) ==
        LET categories == groupByProductCategory(data, places, table)
            categoryStartY2 == CategoryStartY2(clientY2, Len(categories))
            categoryY2(k) == categoryStartY2 + 2 * (k - 1) * CATEGORY_SPACING
            upTo[k \in 0..Len(categories)] ==
              IF k = 0 THEN <<>>
              ELSE upTo[k - 1]
                   \o <<node(CategoryId(clientName, categories[k].key),
                             ClientId(clientName), categoryStartX2,
                             categoryY2(k) - 2 * 40, 200, 80)>>
                   \o (IF CategoryId(clientName, categories[k].key) \in expanded
                       THEN productNodes(clientName, categories[k], categoryY2(k))
                       ELSE <<>>)
        IN  upTo[Len(categories)]
      clientY2(c) == clientStartY2 + 2 * (c - 1) * NODE_SPACING
      upToClient[c \in 0..Len(clients)] ==
        IF c = 0 THEN <<node(rootId, <<>>, centerX2 - 2 * 150, centerY2 - 2 * 50, 300, 100)>>
        ELSE upToClient[c - 1]
             \o <<node(ClientId(clients[c].key), rootId, clientStartX2,
                       clientY2(c) - 2 * 45, 250, 90)>>
             \o (IF ClientId(clients[c].key) \in expanded
                 THEN categoryNodes(clients[c].key, clients[c].places, clientY2(c))
                 ELSE <<>>)
  IN  upToClient[Len(clients)]

\* the layout effect calls buildImprovedLayout and sets the nodes
CallBuildImprovedLayout ==
  /\ mmNodes = <<>>
  /\ mmNodes' = buildImprovedLayout(mmFacture, mmProducts, mmExpanded,
                                    mmViewport.width, mmViewport.height)
  /\ UNCHANGED <<mmFacture, mmProducts, mmExpanded, mmViewport>>
  /\ UNCHANGED <<categoryVars, dashVars, analyticsVars, queryVars, appVars, signupVars,
                 historyVars, syncVars, pageVars, uploadVars, testVars>>

\* ------------------------------------------------ the database sync manager

MaxInvoices == 3
MaxChecks == 2
MaxOps == 2

NoOp == [kind |-> "none"]

IdleSync ==
  /\ smMounted = FALSE
  /\ smIsRunning = FALSE
  /\ smLoading = FALSE
  /\ smChecks = 0
  /\ smOp = NoOp
  /\ smInvoices = <<>>
  /\ invoiceProducts = {}
  /\ smLog = <<>>

\* useEffect: checkSyncStatus() is called and awaits its first query
SmMount ==
  /\ ~smMounted
  /\ smMounted' = TRUE
  /\ smChecks' = smChecks + 1
  /\ UNCHANGED <<smIsRunning, smLoading, smOp, smInvoices, invoiceProducts, smLog>>
  /\ UNCHANGED <<categoryVars, dashVars, analyticsVars, queryVars, appVars, signupVars,
                 historyVars, layoutVars, pageVars, uploadVars, testVars>>

\* the "Refresh Status" button, disabled while loading: checkSyncStatus()
CheckSyncStatusClicked ==
  /\ smMounted /\ ~smLoading
  /\ smChecks < MaxChecks
  /\ smChecks' = smChecks + 1
  /\ UNCHANGED <<smMounted, smIsRunning, smLoading, smOp, smInvoices, invoiceProducts,
                 smLog>>
  /\ UNCHANGED <<categoryVars, dashVars, analyticsVars, queryVars, appVars, signupVars,
                 historyVars, layoutVars, pageVars, uploadVars, testVars>>

\* a checkSyncStatus call ends: setSyncStatus({ isRunning: false, ... }), or
\* one of its queries threw and only a log line is added
CheckSyncStatusReturns ==
  /\ smChecks > 0
  /\ smChecks' = smChecks - 1
  /\ \E thrown \in BOOLEAN :
       smIsRunning' = IF thrown THEN smIsRunning ELSE FALSE
  /\ UNCHANGED <<smMounted, smLoading, smOp, smInvoices, invoiceProducts, smLog>>
  /\ UNCHANGED <<categoryVars, dashVars, analyticsVars, queryVars, appVars, signupVars,
                 historyVars, layoutVars, pageVars, uploadVars, testVars>>

\* the "Sync Today" and "Run Manual Sync" buttons, disabled while loading or
\* running: setLoading(true), isRunning: true, and the first query is awaited
SyncClicked ==
  /\ smMounted /\ ~smLoading /\ ~smIsRunning
  /\ Len(smLog) < MaxOps /\ smChecks < MaxChecks
  /\ \E kind \in {"today", "manual"} :
       smOp' = [kind |-> kind, pos |-> 0, rows |-> <<>>, inserted |-> {}, failed |-> {}]
  /\ smLoading' = TRUE
  /\ smIsRunning' = TRUE
  /\ UNCHANGED <<smMounted, smChecks, smInvoices, invoiceProducts, smLog>>
  /\ UNCHANGED <<categoryVars, dashVars, analyticsVars, queryVars, appVars, signupVars,
                 historyVars, layoutVars, pageVars, uploadVars, testVars>>

\* finally: setLoading(false), isRunning: false
SyncFinally ==
  /\ smLoading' = FALSE
  /\ smIsRunning' = FALSE
  /\ smOp' = NoOp
  /\ smLog' = Append(smLog, [kind |-> smOp.kind, reached |-> smOp.pos > 0,
                             inserted |-> smOp.inserted, failed |-> smOp.failed])

\* the queries before the loop answer: the table is missing or the invoices
\* query fails or finds nothing (the call ends), or the invoices are found
SyncFetched ==
  /\ smOp # NoOp /\ smOp.pos = 0
  /\ \E failed \in BOOLEAN :
       LET found == IF smOp.kind = "manual" THEN smInvoices
                    ELSE SelectSeq(smInvoices, LAMBDA invoice : invoice.today)
       IN  IF failed \/ Len(found) = 0
           THEN SyncFinally /\ UNCHANGED smChecks
           ELSE /\ smOp' = [smOp EXCEPT !.pos = 1, !.rows = found]
                /\ UNCHANGED <<smLoading, smIsRunning, smLog, smChecks>>
  /\ UNCHANGED <<smMounted, smInvoices, invoiceProducts>>
  /\ UNCHANGED <<categoryVars, dashVars, analyticsVars, queryVars, appVars, signupVars,
                 historyVars, layoutVars, pageVars, uploadVars, testVars>>

\* a mutant of AlreadyHasProducts: no invoice is found to have products
AlreadyHasProducts_Never(rows, number) == FALSE

\* existingProducts && existingProducts.length > 0
AlreadyHasProducts(rows, number) == number \in rows

\* one turn of the loop: an invoice without a number is passed over; else the
\* check of existing products fails, or finds a row and the invoice is skipped,
\* or finds none and the insert succeeds or fails
SyncInvoice ==
  /\ smOp # NoOp /\ smOp.pos \in DOMAIN smOp.rows
  /\ LET number == smOp.rows[smOp.pos].invoice_number
         next == [smOp EXCEPT !.pos = @ + 1]
     IN  IF ~Truthy(number)
         THEN smOp' = next /\ UNCHANGED invoiceProducts
         ELSE \E checkError \in BOOLEAN, insertError \in BOOLEAN :
                IF checkError
                THEN /\ smOp' = [next EXCEPT !.failed = @ \cup {number}]
                     /\ UNCHANGED invoiceProducts
                ELSE IF AlreadyHasProducts(invoiceProducts, number)
                THEN smOp' = next /\ UNCHANGED invoiceProducts
                ELSE IF insertError
                THEN /\ smOp' = [next EXCEPT !.failed = @ \cup {number}]
                     /\ UNCHANGED invoiceProducts
                ELSE /\ smOp' = [next EXCEPT !.inserted = @ \cup {number}]
                     /\ invoiceProducts' = invoiceProducts \cup {number}
  /\ UNCHANGED <<smMounted, smIsRunning, smLoading, smChecks, smInvoices, smLog>>
  /\ UNCHANGED <<categoryVars, dashVars, analyticsVars, queryVars, appVars, signupVars,
                 historyVars, layoutVars, pageVars, uploadVars, testVars>>

\* after the loop: the sync_log insert answers, checkSyncStatus() is called
\* without await, and finally runs
SyncCompleted ==
  /\ smOp # NoOp /\ smOp.pos > Len(smOp.rows)
  /\ smChecks' = smChecks + 1
  /\ SyncFinally
  /\ UNCHANGED <<smMounted, smInvoices, invoiceProducts>>
  /\ UNCHANGED <<categoryVars, dashVars, analyticsVars, queryVars, appVars, signupVars,
                 historyVars, layoutVars, pageVars, uploadVars, testVars>>

\* --------------------------------------------------- the sync manager page

MaxCalls == 2

IdlePage ==
  /\ fsPc = "idle"
  /\ fsStatus = "idle"
  /\ fsMessage = ""
  /\ fsLoading = FALSE
  /\ fsTimer = FALSE
  /\ fsCalls = <<>>
  /\ fsOrgId = FALSE
  /\ zohoOrg = FALSE
  /\ fsSession = FALSE

\* the "Full Sync" button, disabled while loading or syncing: handleFullSync
\* up to its first await
FsClick ==
  /\ fsPc = "idle" /\ ~fsLoading /\ fsStatus # "syncing"
  /\ Len(fsCalls) < MaxCalls
  /\ fsStatus' = "syncing"
  /\ fsMessage' = "Getting Zoho credentials..."
  /\ fsLoading' = TRUE
  /\ fsPc' = "credentials"
  /\ fsOrgId' = FALSE
  /\ UNCHANGED <<fsTimer, fsCalls, zohoOrg, fsSession>>
  /\ UNCHANGED <<categoryVars, dashVars, analyticsVars, queryVars, appVars, signupVars,
                 historyVars, layoutVars, syncVars, uploadVars, testVars>>

\* the zoho_credentials query answers: an error or no org_id is thrown to the
\* catch and finally; else getSession is awaited
FsCredentials ==
  /\ fsPc = "credentials"
  /\ \E credError \in BOOLEAN :
       IF credError \/ ~zohoOrg
       THEN /\ fsMessage' = "Sync failed: Zoho credentials not found"
            /\ fsStatus' = "error"
            /\ fsLoading' = FALSE
            /\ fsPc' = "idle"
       ELSE /\ fsMessage' = "Syncing invoices from Zoho Books to facture table..."
            /\ fsPc' = "session"
            /\ UNCHANGED <<fsStatus, fsLoading>>
  /\ fsOrgId' = (zohoOrg /\ fsPc' = "session")
  /\ UNCHANGED <<fsTimer, fsCalls, zohoOrg, fsSession>>
  /\ UNCHANGED <<categoryVars, dashVars, analyticsVars, queryVars, appVars, signupVars,
                 historyVars, layoutVars, syncVars, uploadVars, testVars>>

\* getSession answers: it rejects or holds no session (catch and finally),
\* else the remote function is called with fetch
FsSession ==
  /\ fsPc = "session"
  /\ \E rejected \in BOOLEAN :
       IF rejected \/ ~fsSession
       THEN /\ fsMessage' = IF rejected THEN "Sync failed: An unknown error occurred"
                            ELSE "Sync failed: User not authenticated"
            /\ fsStatus' = "error"
            /\ fsLoading' = FALSE
            /\ fsPc' = "idle"
            /\ UNCHANGED fsCalls
       ELSE /\ fsCalls' = Append(fsCalls, [org_id |-> fsOrgId, session |-> fsSession])
            /\ fsPc' = "fetch"
            /\ UNCHANGED <<fsMessage, fsStatus, fsLoading>>
  /\ UNCHANGED <<fsTimer, fsOrgId, zohoOrg, fsSession>>
  /\ UNCHANGED <<categoryVars, dashVars, analyticsVars, queryVars, appVars, signupVars,
                 historyVars, layoutVars, syncVars, uploadVars, testVars>>

\* fetch settles: rejected, a body that is no JSON, or a response that is not
\* ok (catch and finally); or ok, and the stats are refreshed before finally
FsFetch_CatchKeepsStatus ==
  /\ fsPc = "fetch"
  /\ \E outcome \in {"rejected", "no json", "not ok", "ok"} :
       IF outcome = "ok"
       THEN /\ fsMessage' = "Successfully synced"
            /\ fsStatus' = "success"
            /\ fsPc' = "refresh"
            /\ UNCHANGED fsLoading
       ELSE /\ fsMessage' = "Sync failed"
            /\ UNCHANGED fsStatus
            /\ fsLoading' = FALSE
            /\ fsPc' = "idle"
  /\ UNCHANGED <<fsTimer, fsCalls, fsOrgId, zohoOrg, fsSession>>
  /\ UNCHANGED <<categoryVars, dashVars, analyticsVars, queryVars, appVars, signupVars,
                 historyVars, layoutVars, syncVars, uploadVars, testVars>>

FsFetch ==
  /\ fsPc = "fetch"
  /\ \E outcome \in {"rejected", "no json", "not ok", "ok"} :
       IF outcome = "ok"
       THEN /\ fsMessage' = "Successfully synced"
            /\ fsStatus' = "success"
            /\ fsPc' = "refresh"
            /\ UNCHANGED fsLoading
       ELSE /\ fsMessage' = "Sync failed"
            /\ fsStatus' = "error"
            /\ fsLoading' = FALSE
            /\ fsPc' = "idle"
  /\ UNCHANGED <<fsTimer, fsCalls, fsOrgId, zohoOrg, fsSession>>
  /\ UNCHANGED <<categoryVars, dashVars, analyticsVars, queryVars, appVars, signupVars,
                 historyVars, layoutVars, syncVars, uploadVars, testVars>>

\* loadSyncStats and checkLastSync, which catch their own errors, have
\* answered: finally
FsRefreshed ==
  /\ fsPc = "refresh"
  /\ fsLoading' = FALSE
  /\ fsPc' = "idle"
  /\ UNCHANGED <<fsStatus, fsMessage, fsTimer, fsCalls, fsOrgId, zohoOrg, fsSession>>
  /\ UNCHANGED <<categoryVars, dashVars, analyticsVars, queryVars, appVars, signupVars,
                 historyVars, layoutVars, syncVars, uploadVars, testVars>>

\* the "Quick Refresh" button, disabled while loading: handleQuickRefresh up
\* to its first await
QuickClick ==
  /\ fsPc = "idle" /\ ~fsLoading
  /\ fsLoading' = TRUE
  /\ fsMessage' = "Refreshing local data..."
  /\ fsPc' = "quick"
  /\ UNCHANGED <<fsStatus, fsTimer, fsCalls, fsOrgId, zohoOrg, fsSession>>
  /\ UNCHANGED <<categoryVars, dashVars, analyticsVars, queryVars, appVars, signupVars,
                 historyVars, layoutVars, syncVars, uploadVars, testVars>>

\* its two awaits have answered: the message, the timer that clears it, finally
QuickRefreshed ==
  /\ fsPc = "quick"
  /\ fsMessage' = "Data refreshed successfully"
  /\ fsTimer' = TRUE
  /\ fsLoading' = FALSE
  /\ fsPc' = "idle"
  /\ UNCHANGED <<fsStatus, fsCalls, fsOrgId, zohoOrg, fsSession>>
  /\ UNCHANGED <<categoryVars, dashVars, analyticsVars, queryVars, appVars, signupVars,
                 historyVars, layoutVars, syncVars, uploadVars, testVars>>

\* setTimeout(() => setSyncMessage(''), 3000) fires
MessageTimerFires ==
  /\ fsTimer
  /\ fsTimer' = FALSE
  /\ fsMessage' = ""
  /\ UNCHANGED <<fsPc, fsStatus, fsLoading, fsCalls, fsOrgId, zohoOrg, fsSession>>
  /\ UNCHANGED <<categoryVars, dashVars, analyticsVars, queryVars, appVars, signupVars,
                 historyVars, layoutVars, syncVars, uploadVars, testVars>>

\* a sign-in or sign-out, or the Zoho integration being configured or removed
FsEnvironment ==
  /\ \E org \in BOOLEAN, session \in BOOLEAN :
       /\ <<org, session>> # <<zohoOrg, fsSession>>
       /\ zohoOrg' = org
       /\ fsSession' = session
  /\ UNCHANGED <<fsPc, fsStatus, fsMessage, fsLoading, fsTimer, fsCalls, fsOrgId>>
  /\ UNCHANGED <<categoryVars, dashVars, analyticsVars, queryVars, appVars, signupVars,
                 historyVars, layoutVars, syncVars, uploadVars, testVars>>

\* ------------------------------------------------------- the catalogue upload

MaxUploads == 2

IdleUpload ==
  /\ upPc = "idle"
  /\ uploading = FALSE
  /\ uploadProgress = 0
  /\ upFileName = ""
  /\ uploadLog = <<>>

\* catch and finally of uploadCatalogue, and its return
UploadFinally(fileName, toast) ==
  /\ uploadLog' = Append(uploadLog, [fileName |-> fileName, toast |-> toast])
  /\ uploading' = FALSE
  /\ uploadProgress' = 0
  /\ upPc' = "idle"

\* the "Upload" button, disabled without a file and a title and while
\* uploading: uploadCatalogue up to the await of getSession
UploadClicked ==
  /\ path = "/catalogue-upload" /\ Render(path) = "content"
  /\ ~uploading /\ upPc = "idle"
  /\ Len(uploadLog) < MaxUploads
  /\ uploading' = TRUE
  /\ uploadProgress' = 10
  /\ upPc' = "session"
  /\ upFileName' = ""
  /\ UNCHANGED uploadLog
  /\ UNCHANGED appVars
  /\ UNCHANGED <<categoryVars, dashVars, analyticsVars, queryVars, signupVars,
                 historyVars, layoutVars, syncVars, pageVars, testVars>>

\* getSession answers: without a session, "Upload Failed"; else the fresh
\* fileName is made and the storage upload answers: with an error, "Upload
\* Failed"; else the file is stored and the insert is awaited
UploadStored ==
  /\ upPc = "session"
  /\ \E authError \in BOOLEAN, uploadError \in BOOLEAN :
       IF authError \/ authSession = NoUser
       THEN /\ upFileName' = ""
            /\ UploadFinally("", "Upload Failed")
            /\ UNCHANGED storageObjects
       ELSE /\ upFileName' = "u" \o ToString(Len(uploadLog) + 1)
            /\ IF uploadError
               THEN /\ UploadFinally(upFileName', "Upload Failed")
                    /\ UNCHANGED storageObjects
               ELSE /\ storageObjects' = storageObjects \cup {upFileName'}
                    /\ uploadProgress' = 80
                    /\ upPc' = "insert"
                    /\ UNCHANGED <<uploading, uploadLog>>
  /\ UNCHANGED <<appPc, authSession, user, userType, userName, checking, fetches, path,
                 catalogueRows, catalogues, deleteLog>>
  /\ UNCHANGED <<categoryVars, dashVars, analyticsVars, queryVars, signupVars,
                 historyVars, layoutVars, syncVars, pageVars, testVars>>

\* the product_catalogues insert answers. With dbError the file is removed
\* from storage, the answer of the removal being dropped, and "Upload Failed"
\* is shown; else "Success!", fetchCatalogues, and finally.
UploadReturns ==
  /\ upPc = "insert"
  /\ \E dbError \in BOOLEAN, removeError \in BOOLEAN :
       IF dbError
       THEN /\ storageObjects' = IF removeError THEN storageObjects
                                 ELSE storageObjects \ {upFileName}
            /\ UploadFinally(upFileName, "Upload Failed")
            /\ UNCHANGED <<catalogueRows, catalogues>>
       ELSE /\ catalogueRows' = catalogueRows \cup {upFileName}
            /\ catalogues' = catalogueRows'
            /\ UploadFinally(upFileName, "Success!")
            /\ UNCHANGED storageObjects
  /\ UNCHANGED upFileName
  /\ UNCHANGED <<appPc, authSession, user, userType, userName, checking, fetches, path,
                 deleteLog>>
  /\ UNCHANGED <<categoryVars, dashVars, analyticsVars, queryVars, signupVars,
                 historyVars, layoutVars, syncVars, pageVars, testVars>>

\* ----------------------------------------------------------- the trigger test

MaxTests == 2

IdleTest ==
  /\ ttPc = "idle"
  /\ ttNumber = <<>>
  /\ ttLog = <<>>

\* the "Test Triggers" button, disabled while loading: testTriggers up to
\* the await of its insert into invoices
TestTriggersClicked ==
  /\ smMounted /\ ~smLoading /\ ttPc = "idle"
  /\ Len(ttLog) < MaxTests
  /\ smLoading' = TRUE
  /\ ttNumber' = <<"T", ToString(Len(ttLog) + 1)>>
  /\ ttPc' = "insert"
  /\ UNCHANGED ttLog
  /\ UNCHANGED <<smMounted, smIsRunning, smChecks, smOp, smInvoices, invoiceProducts,
                 smLog>>
  /\ UNCHANGED <<categoryVars, dashVars, analyticsVars, queryVars, appVars, signupVars,
                 historyVars, layoutVars, pageVars, uploadVars>>

\* the insert answers: with insertError, catch and finally; else the TEST-
\* invoice is in the table, with a row of invoice_products if the insert
\* trigger is set up, and the 2 s wait and the select are awaited
TestInserted ==
  /\ ttPc = "insert"
  /\ \E insertError \in BOOLEAN, triggered \in BOOLEAN :
       IF insertError
       THEN /\ ttLog' = Append(ttLog, [number |-> ttNumber, inserted |-> FALSE])
            /\ smLoading' = FALSE
            /\ ttPc' = "idle"
            /\ UNCHANGED <<smInvoices, invoiceProducts>>
       ELSE /\ smInvoices' = Append(smInvoices,
                                    [invoice_number |-> ttNumber, today |-> TRUE])
            /\ invoiceProducts' = IF triggered THEN invoiceProducts \cup {ttNumber}
                                  ELSE invoiceProducts
            /\ ttPc' = "select"
            /\ UNCHANGED <<ttLog, smLoading>>
  /\ UNCHANGED ttNumber
  /\ UNCHANGED <<smMounted, smIsRunning, smChecks, smOp, smLog>>
  /\ UNCHANGED <<categoryVars, dashVars, analyticsVars, queryVars, appVars, signupVars,
                 historyVars, layoutVars, pageVars, uploadVars>>

\* the select answers: with selectError, catch and finally; else the two
\* deletes are awaited, their answers being dropped, checkSyncStatus() is
\* called without await, and finally runs
TestReturns ==
  /\ ttPc = "select"
  /\ \E selectError \in BOOLEAN, invoiceKept \in BOOLEAN, productsKept \in BOOLEAN :
       IF selectError
       THEN UNCHANGED <<smInvoices, invoiceProducts, smChecks>>
       ELSE /\ smInvoices' =
                 IF invoiceKept THEN smInvoices
                 ELSE SelectSeq(smInvoices,
                                LAMBDA invoice : invoice.invoice_number # ttNumber)
            /\ invoiceProducts' = IF productsKept THEN invoiceProducts
                                  ELSE invoiceProducts \ {ttNumber}
            /\ smChecks' = smChecks + 1
  /\ ttLog' = Append(ttLog, [number |-> ttNumber, inserted |-> TRUE])
  /\ smLoading' = FALSE
  /\ ttPc' = "idle"
  /\ UNCHANGED ttNumber
  /\ UNCHANGED <<smMounted, smIsRunning, smOp, smLog>>
  /\ UNCHANGED <<categoryVars, dashVars, analyticsVars, queryVars, appVars, signupVars,
                 historyVars, layoutVars, pageVars, uploadVars>>

\* ------------------------------------------------------- specifications

\* Each specification runs one component; the others stay as constructed.
IdleBut(component) ==
  /\ IF component = "category" THEN TRUE ELSE IdleCategory
  /\ IF component = "layout" THEN TRUE ELSE IdleLayout
  /\ IF component = "sync" THEN TRUE ELSE IdleSync
  /\ IdleDash
  /\ IdleTest
  /\ IdleUpload
  /\ IdlePage
  /\ IdleAnalytics
  /\ IdleQuery
  /\ IF component = "upload" THEN TRUE ELSE IdleApp
  /\ IdleSignup
  /\ IdleHistory

InitCategory ==
  /\ products \in ProductTables
  /\ argProduct \in ItemNames \cup {Null}
  /\ retCategory = Pending
  /\ IdleBut("category")

SpecCategory == InitCategory /\ [][CallGetProductCategory]_vars

\* Every other specification starts with all components as constructed.
InitComponents == IdleBut("none")

SpecDash ==
  InitComponents
  /\ [][
       \/ DashMount
       \/ DashGetUser
       \/ DashProfile
       \/ DashFacture
       \/ DashForum
       \/ DashCount
     ]_vars

\* Every awaited call of fetchDashboardData settles
SpecDashFair ==
  /\ SpecDash
  /\ WF_vars(DashMount) /\ WF_vars(DashGetUser) /\ WF_vars(DashProfile)
  /\ WF_vars(DashFacture) /\ WF_vars(DashForum) /\ WF_vars(DashCount)

SpecAnalytics ==
  InitComponents
  /\ [][
       \/ AnFetchStart
       \/ AnFetchReturns
       \/ AnFetchFails
       \/ AnSelectTimeframe
     ]_vars

SpecQuery ==
  InitComponents
  /\ [][
       \/ QType
       \/ QSubmit
       \/ QAnswer
       \/ QProps
     ]_vars

SpecApp ==
  InitComponents
  /\ [][
       \/ InitializeAuth
       \/ OnAuthStateChange
       \/ ProfileReturns
       \/ handleLogout
       \/ OpenUrl
       \/ NavigateTo
       \/ Redirect
       \/ fetchCatalogues
       \/ deleteCatalogue
     ]_vars

\* CatalogueUploader, opened by a signed-in admin over the rows and files
\* uploaded before
InitUpload ==
  /\ IdleBut("upload")
  /\ appPc = "listening" /\ authSession = "ada" /\ user = "ada"
  /\ userType = "admin" /\ userName = "ada"
  /\ checking = FALSE /\ fetches = <<>> /\ path = "/catalogue-upload"
  /\ catalogueRows = Catalogues /\ storageObjects = Catalogues
  /\ catalogues = {} /\ deleteLog = NoDelete

SpecUpload ==
  InitUpload
  /\ [][
       \/ fetchCatalogues
       \/ deleteCatalogue
       \/ UploadClicked
       \/ UploadStored
       \/ UploadReturns
     ]_vars

SpecSignup ==
  InitComponents
  /\ [][
       \/ SuType
       \/ SuSubmit
       \/ SuSignUpFails
       \/ SuSignUpPending
       \/ SuSignUpReturnsUser
       \/ SuInsertReturns
       \/ SuOpen
     ]_vars

SpecHistory ==
  InitComponents
  /\ [][
       \/ HMount
       \/ HReturnsEarly
       \/ HLoads
       \/ HSetFilter
     ]_vars

\* buildImprovedLayout applied once to inputs drawn from the sets of the model
InitLayout ==
  /\ mmFacture \in
       UNION { [1..n -> [Client : {Null, <<"c">>},
                         Product : {<<"a">>, <<"a", "-", "b">>}]] :
               n \in 0..MaxItems }
  /\ mmProducts \in MmProductTables
  /\ mmExpanded \in MmExpansions
  /\ mmViewport \in { [width |-> 1200, height |-> 800], [width |-> 375, height |-> 667] }
  /\ mmNodes = <<>>
  /\ IdleBut("layout")

SpecLayout == InitLayout /\ [][CallBuildImprovedLayout]_vars

\* the sync manager over an invoices table drawn from the tables of the model
InitSync ==
  /\ smInvoices \in
       UNION { [1..n -> { [invoice_number |-> Null, today |-> FALSE],
                          [invoice_number |-> <<"1">>, today |-> TRUE],
                          [invoice_number |-> <<"2">>, today |-> FALSE] }] :
               n \in 0..MaxInvoices }
  /\ smMounted = FALSE /\ smIsRunning = FALSE /\ smLoading = FALSE /\ smChecks = 0
  /\ smOp = NoOp /\ invoiceProducts = {} /\ smLog = <<>>
  /\ IdleBut("sync")

SpecSync ==
  InitSync
  /\ [][
       \/ SmMount
       \/ CheckSyncStatusClicked
       \/ CheckSyncStatusReturns
       \/ SyncClicked
       \/ SyncFetched
       \/ SyncInvoice
       \/ SyncCompleted
     ]_vars

\* Every awaited call settles: the queries and getSession answer, and fetch
\* resolves or rejects.
SpecPageFair ==
  /\ InitComponents
  /\ [][
       \/ FsClick
       \/ FsCredentials
       \/ FsSession
       \/ FsFetch
       \/ FsRefreshed
       \/ QuickClick
       \/ QuickRefreshed
       \/ MessageTimerFires
       \/ FsEnvironment
     ]_vars
  /\ WF_vars(FsCredentials) /\ WF_vars(FsSession) /\ WF_vars(FsFetch)
  /\ WF_vars(FsRefreshed)


\* the sync manager with its status checks and its trigger test
SpecTriggers ==
  InitSync
  /\ [][
       \/ SmMount
       \/ CheckSyncStatusClicked
       \/ CheckSyncStatusReturns
       \/ TestTriggersClicked
       \/ TestInserted
       \/ TestReturns
     ]_vars

\* --------------------------------------------------------------- claims

First(S) == CHOOSE i \in S : \A j \in S : i <= j
NameOf(p) == IF p.itemName = Null THEN <<>> ELSE p.itemName
Contains(a, b) == \E i \in 0..(Len(a) - Len(b)) : \A k \in 1..Len(b) : a[i + k] = b[k]
Related(a, b) ==
  Contains(ToLowerCase(a), ToLowerCase(b)) \/ Contains(ToLowerCase(b), ToLowerCase(a))

\* C4 as stated: the category of the first row whose item name equals the product
\* name case-insensitively, else the category of the first row related to the name
\* by substring containment, else "Uncategorized".
C4_AsStated ==
  retCategory # Pending =>
    LET name == IF argProduct = Null THEN <<>> ELSE argProduct
        E == {i \in 1..Len(products) :
               /\ products[i].itemName # Null
               /\ ToLowerCase(products[i].itemName) = ToLowerCase(name)}
        S == {i \in 1..Len(products) : Related(NameOf(products[i]), name)}
    IN  retCategory = IF E # {} THEN products[First(E)].category
                      ELSE IF S # {} THEN products[First(S)].category
                      ELSE Uncategorized

\* C4 (amended): getProductCategory is a function of the product name and the table
\* with a fixed priority. A missing or empty product name, or an empty table, gives
\* "Uncategorized". Otherwise the row is the first one whose item name equals the
\* product name ignoring case and surrounding blanks; failing that, the first row
\* whose lowercased item name contains or is contained in the lowercased product name
\* (a row without an item name counts as the empty name). The result is that row's
\* category, and "Uncategorized" when no row matches or the row has no category.
C4_CategoryPriority ==
  retCategory # Pending =>
    IF argProduct = Null \/ argProduct = <<>> \/ products = <<>>
    THEN retCategory = Uncategorized
    ELSE LET E == {i \in 1..Len(products) :
                    /\ products[i].itemName # Null
                    /\ Trim(ToLowerCase(products[i].itemName))
                         = Trim(ToLowerCase(argProduct))}
             S == {i \in 1..Len(products) : Related(NameOf(products[i]), argProduct)}
             row == IF E # {} THEN First(E) ELSE IF S # {} THEN First(S) ELSE 0
         IN  /\ row = 0 => retCategory = Uncategorized
             /\ row # 0 /\ products[row].category \in {Null, <<>>}
                  => retCategory = Uncategorized
             /\ row # 0 /\ products[row].category \notin {Null, <<>>}
                  => retCategory = products[row].category

\* C4 witness: the call has returned the category of an exact match in row 2 although
\* row 1, of another category, is related to the name by containment only.
C4_Witness ==
  /\ retCategory # Pending
  /\ Len(products) = 2
  /\ argProduct = <<"A">>
  /\ products[1].itemName = <<"a","b">>
  /\ products[2].itemName = <<"a"," ">>
  /\ products[1].category = <<"X">>
  /\ products[2].category = <<"Y">>
  /\ retCategory = <<"Y">>

\* The number a column value stands for, a missing value (null, the empty text)
\* counting as zero
ValueOrZero(v) ==
  CASE v.t = "null" -> 0
    [] v.t = "num" -> v.n
    [] v.t = "str" -> DigitsValue(v.s)

LineAmount(line) == ValueOrZero(line.Quantity) * ValueOrZero(line.Price)

RECURSIVE SumOfAmounts(_)
SumOfAmounts(lines) ==
  IF lines = <<>> THEN 0 ELSE LineAmount(Head(lines)) + SumOfAmounts(Tail(lines))

\* C2: once the client dashboard has loaded a list of invoice lines, totalSpent is
\* the sum over all lines of quantity x price, a missing quantity or price counting
\* as zero.
C2_TotalSpent ==
  (dashPc = "done" /\ factureData # NullRows) =>
     dashboardData.totalSpent = SumOfAmounts(factureData)

\* C2 witness: two lines were loaded, one without a price and one worth 3 x 10, and
\* the total shown is 30.
C2_Witness ==
  /\ dashPc = "done"
  /\ factureData # NullRows
  /\ Len(factureData) = 2
  /\ factureData[1].Price = JsNull /\ factureData[1].Quantity = Num(2)
  /\ factureData[2].Price = Str(<<"1","0">>) /\ factureData[2].Quantity = Str(<<"3">>)
  /\ dashboardData.totalSpent = 30

\* C3: once the client dashboard has loaded a list of invoice lines, totalOrders is
\* the number of distinct invoice ids among the lines whose invoice id is non-empty.
C3_TotalOrders ==
  (dashPc = "done" /\ factureData # NullRows) =>
     dashboardData.totalOrders =
       Cardinality({ factureData[i].invoice_id : i \in
                       {j \in 1..Len(factureData) :
                          factureData[j].invoice_id \notin {Null, <<>>}} })

\* C3 witness: of two loaded lines one has no invoice id and the other has id A, and
\* one order is shown.
C3_Witness ==
  /\ dashPc = "done"
  /\ factureData # NullRows
  /\ Len(factureData) = 2
  /\ factureData[1].invoice_id = Null
  /\ factureData[2].invoice_id = <<"A">>
  /\ dashboardData.totalOrders = 1

  /\ IdleHistory

\* the sum of quantity x price over all of the lines, each number as parseNumber
\* reads it (zero for a missing value or a text without a digit)
RECURSIVE SumOfParsedAmounts(_)
SumOfParsedAmounts(lines) ==
  IF lines = <<>> THEN 0
  ELSE parseNumber(Head(lines).Quantity) * parseNumber(Head(lines).Price)
         + SumOfParsedAmounts(Tail(lines))

\* C10, as the claim states it: Total Orders counts the timeframe-filtered lines,
\* and Total Revenue is the sum of quantity x price over all of those lines.
\* processAnalytics adds a line to totalRev inside the monthly loop, after
\* "if (!date) return", so a filtered line without a parseable Date is counted in
\* Total Orders and left out of Total Revenue.
C10_AsStated ==
  /\ kpis.totalOrders = Len(filteredFactures)
  /\ kpis.totalRevenue = SumOfParsedAmounts(filteredFactures)


RECURSIVE SumOfQuantities(_)
SumOfQuantities(lines) ==
  IF lines = <<>> THEN 0
  ELSE ValueOrZero(Head(lines).Quantity) + SumOfQuantities(Tail(lines))

\* C13: once the client dashboard has loaded a list of invoice lines, totalItems
\* is the sum of the quantities of all lines, a missing quantity counting as
\* zero; for the three example lines totalItems is 6, totalSpent 31 and
\* totalOrders 2.
C13_TotalItems ==
  (dashPc = "done" /\ factureData # NullRows) =>
     /\ dashboardData.totalItems = SumOfQuantities(factureData)
     /\ factureData = ExampleLines =>
           /\ dashboardData.totalItems = 6
           /\ dashboardData.totalSpent = 31
           /\ dashboardData.totalOrders = 2

\* C13 witness: the three example lines were loaded and six items are shown.
C13_Witness ==
  /\ dashPc = "done"
  /\ factureData = ExampleLines
  /\ dashboardData.totalItems = 6

\* ---- the keyword query responder

\* the order of the rules
ClaimedOrder ==
  << "topCustomers", "topProducts", "churnRisk", "revenueTrend",
     "businessOverview", "categoryPerformance" >>

\* the handlers of each rule
HandlersOf(rule) ==
  CASE rule = "topCustomers" -> {"processTopCustomersQuery"}
    [] rule = "topProducts" -> {"processTopProductsQuery"}
    [] rule = "churnRisk" -> {"processChurnRiskQuery"}
    [] rule = "revenueTrend" ->
         {"processOverallRevenueTrendQuery", "processCategoryRevenueTrendQuery"}
    [] rule = "businessOverview" -> {"processBusinessOverviewQuery"}
    [] rule = "categoryPerformance" -> {"processTopCategoryPerformanceQuery"}

\* the positions in the order of the rules each question satisfies
SatisfiedBy ==
  [ question \in Questions |->
      { k \in DOMAIN ClaimedOrder :
          RuleCondition(ClaimedOrder[k], ToLowerCase(question)) } ]

Satisfied(question) == SatisfiedBy[question]

Answered == { i \in DOMAIN queryHistory : ~queryHistory[i].processing }

\* C5: an answered question that satisfies the keyword conditions of several
\* rules was answered by one handler, that of the earliest satisfied rule in the
\* order top customers, best-selling products, churn risk, revenue trend,
\* business overview, category performance.
C5_EarliestRuleWins ==
  \A i \in Answered :
    LET sat == Satisfied(queryHistory[i].question)
    IN  Cardinality(sat) >= 2 =>
          queryHistory[i].result.handler
            \in HandlersOf(ClaimedOrder[CHOOSE k \in sat : \A j \in sat : k <= j])

\* an answered question that satisfies three rules, and one that satisfies two
C5_Witness ==
  /\ \E i \in Answered : Cardinality(Satisfied(queryHistory[i].question)) >= 3
  /\ \E i \in Answered : Cardinality(Satisfied(queryHistory[i].question)) = 2

\* a question whose first satisfied rule is the revenue trend and that names
\* "category" or "product type": processCategoryRevenueTrendQuery answers it
CategoryTrendQuestions ==
  { question \in Questions :
      LET sat == Satisfied(question)
          lowercaseQuery == ToLowerCase(question)
      IN  /\ sat # {}
          /\ ClaimedOrder[CHOOSE k \in sat : \A j \in sat : k <= j] = "revenueTrend"
          /\ \/ Includes(lowercaseQuery, Keyword.category)
             \/ Includes(lowercaseQuery, Keyword.product_type) }

CategoryTrendQuestion(question) == question \in CategoryTrendQuestions

NotUnderstood ==
  \A i \in Answered :
    Satisfied(queryHistory[i].question) = {} =>
      /\ queryHistory[i].result.title = "Query Not Understood"
      /\ queryHistory[i].result.type = "text"

\* C6, as the claim states it: two answers to the same question text have the
\* same result type, and a question no rule matches is not understood.
C6_AsStated ==
  /\ \A i, j \in Answered :
       queryHistory[i].question = queryHistory[j].question =>
         queryHistory[i].result.type = queryHistory[j].result.type
  /\ NotUnderstood

SameTypeButCategoryTrend ==
  \A i, j \in Answered :
    (/\ queryHistory[i].question = queryHistory[j].question
     /\ ~CategoryTrendQuestion(queryHistory[i].question)) =>
      queryHistory[i].result.type = queryHistory[j].result.type

\* the answer to a category revenue trend question is a text when no line the
\* submitting render held has a category that includes the requested name, and
\* a chart otherwise
CategoryTrendByData ==
  (aiClosure # NoClosure /\ aiClosure' = NoClosure) =>
    \A i \in DOMAIN queryHistory' :
      (/\ queryHistory'[i].id = aiClosure.id
       /\ CategoryTrendQuestion(aiClosure.question)) =>
        LET name == CategoryName(ToLowerCase(aiClosure.question))
            some == \E n \in DOMAIN aiClosure.factureData :
                      Includes(ToLowerCase(getProductCategory(
                                 aiClosure.factureData[n].Product, aiClosure.products)),
                               name)
        IN  queryHistory'[i].result.type = IF some THEN "chart" ELSE "text"

\* C6: two answers to the same question text have the same result type, except
\* for a category revenue trend question, whose answer is a text or a chart by
\* the lines held at submission; a question no rule matches gets the "Query Not
\* Understood" text.
C6_SameTypeButCategoryTrend ==
  /\ [](SameTypeButCategoryTrend /\ NotUnderstood)
  /\ [][CategoryTrendByData]_vars

\* the same question answered twice: one no rule matches, or one a rule matches
C6_Witness ==
  /\ Len(queryHistory) = 2
  /\ Answered = {1, 2}
  /\ queryHistory[1].question = queryHistory[2].question
  /\ Satisfied(queryHistory[1].question) = {}


\* ---- the app shell and the catalogues

\* the routes whose content is protected
ClaimedProtected ==
  { "/analytics", "/sync-manager", "/catalogue-upload", "/catalogues", "/users",
    "/dashboard", "/mindmap", "/forum", "/csv", "/zoho", "/history" }

\* C1: the content of a protected route is rendered only if checking is false and
\* both a session user and a non-null userType are held; in every other state
\* the route shows the loader or redirects to /login.
C1_ProtectedContent ==
  \A p \in ClaimedProtected :
    IF ~checking /\ user # NoUser /\ userType # NoRole
    THEN Render(p) \in {"content", "loader", "redirect"}
    ELSE Render(p) \in {"loader", "redirect"}

\* the session check has ended with the admin's session and profile, and the protected
\* route of the location renders its content
C1_Witness ==
  /\ path \in ClaimedProtected
  /\ Render(path) = "content"
  /\ user = "ada" /\ userType = "admin"

\* the initial session check and every profile fetch have ended
ProcessingFinished == appPc = "listening" /\ fetches = <<>>

\* C15, as the claim states it: once all processing has finished, user and
\* userType are set only if the session the auth service reported last is
\* non-null, so that a sign-out not followed by a sign-in never ends with them
\* set. (With processing finished and the page not reloaded since, the session
\* the service holds is the one it reported last, unless getSession failed.)
\* The profile fetch of an earlier sign-in that answers after a sign-out sets
\* them.
C15_AsStated ==
  (ProcessingFinished /\ user # NoUser /\ TruthyRole(userType)) => authSession # NoUser

\* C16, as the claim states it: checking is never false while a profile fetch
\* is pending. checking is not set back to true, so every fetch that an auth
\* event starts after the first processing has ended is pending with checking
\* false.
C16_AsStated == ~(checking = FALSE /\ fetches # <<>>)

C7_AsStated ==
  (deleteLog # NoDelete /\ deleteLog.toast = "Deleted") =>
    /\ deleteLog.catalogue \notin catalogueRows
    /\ deleteLog.catalogue \notin storageObjects

\* C8, as the claim states it: no confirmed deleteCatalogue call was made on the
\* catalogue management screen while the signed-in user's role was client. The
\* route "/catalogue-upload" asks for isAuthenticated only, so a page load at
\* that address shows the screen to a client.
C8_AsStated ==
  deleteLog # NoDelete => deleteLog.by # "client"


\* ---- the signup form

\* C9, as the claim states it: when no handleSubmit is running, every account
\* that a successful sign-up call made has a users row with role 'client'.
\* handleSubmit returns without an insert when signUp gives no data.user, and
\* only sets the error when the insert fails.
C9_AsStated ==
  suPc = "form" =>
    \A account \in authAccounts :
      \E row \in usersTable : row.id = account /\ row.user_type = "client"

\* ---- the purchase history

\* the page shows the lines it loaded, with no filter set
HistoryShownUnfiltered ==
  /\ hPc = "shown"
  /\ hFacture # <<>>
  /\ dateFilter = ""
  /\ productFilter = <<>>
  /\ categoryFilter = <<>>

\* the unique invoice ids among the lines that have a non-empty one
NonEmptyInvoiceIds(data) ==
  { data[i].invoice_id : i \in { j \in DOMAIN data : Truthy(data[j].invoice_id) } }

\* C11: the number under "Invoices" on the purchase history page is the number
\* of unique invoice ids among the client's lines that have a non-empty
\* invoice id.
C11_AsStated ==
  HistoryShownUnfiltered =>
    Len(filteredHistory) = Cardinality(NonEmptyInvoiceIds(hFacture))

\* C12: every line shown on the purchase history page carries the category
\* that the priority exact case-insensitive match, then substring match, then
\* "Uncategorized" gives its product name against the products table.
C12_AsStated ==
  HistoryShownUnfiltered =>
    \A n \in DOMAIN filteredHistory : \A m \in DOMAIN filteredHistory[n].items :
      filteredHistory[n].items[m].category =
        getProductCategory(filteredHistory[n].items[m].Product, hProducts)

\* ---- the mind map layout

\* the nodes whose edge comes from the node id, in the order they were pushed
ChildrenOf(id) == SelectSeq(mmNodes, LAMBDA n : n.source = id)

\* twice the y of the middle of a node
MiddleY2(n) == n.y2 + n.height2 \div 2

\* the nodes of group share x2, which is 350 right of leftX2, their middles are
\* spacing apart, and the first and the last are equally far from middleY2
Stacked(group, spacing, leftX2, middleY2) ==
  /\ \A i \in DOMAIN group : group[i].x2 = leftX2 + 2 * LEVEL_SPACING
  /\ \A i \in 1..(Len(group) - 1) :
       MiddleY2(group[i + 1]) - MiddleY2(group[i]) = 2 * spacing
  /\ group # <<>> =>
       MiddleY2(group[Len(group)]) - middleY2 = middleY2 - MiddleY2(group[1])

\* C14: whatever the data, the expansion state and the viewport,
\* buildImprovedLayout puts the client nodes at one x, 350 right of the
\* viewport's centre, 120 apart with the first and the last equally far from
\* the viewport's vertical centre; the category nodes of a client 350 further
\* right, 180 apart and centred on the client's y; and the product nodes of a
\* category 350 further right again, 100 apart and centred on the category's y.
C14_StackedLayout ==
  mmNodes # <<>> =>
    LET clients == ChildrenOf(mmNodes[1].id)
    IN  /\ Stacked(clients, NODE_SPACING, mmViewport.width, mmViewport.height)
        /\ \A c \in DOMAIN clients :
             LET categories == ChildrenOf(clients[c].id)
             IN  /\ Stacked(categories, CATEGORY_SPACING, clients[c].x2,
                            MiddleY2(clients[c]))
                 /\ \A k \in DOMAIN categories :
                      Stacked(ChildrenOf(categories[k].id), PRODUCT_SPACING,
                              categories[k].x2, MiddleY2(categories[k]))

\* C14 witness: in a viewport of odd height two clients are laid out, one of
\* them expanded into two categories, of which one is expanded into two products.
C14_Witness ==
  /\ mmNodes # <<>>
  /\ mmViewport.height = 667
  /\ Len(ChildrenOf(mmNodes[1].id)) = 2
  /\ \E c \in DOMAIN mmNodes :
       /\ mmNodes[c].source = mmNodes[1].id
       /\ Len(ChildrenOf(mmNodes[c].id)) = 2
       /\ \E k \in DOMAIN mmNodes :
            /\ mmNodes[k].source = mmNodes[c].id
            /\ Len(ChildrenOf(mmNodes[k].id)) = 2

\* ---- the database sync manager

\* C18, as the claim states it: for as long as a syncTodaysInvoices or
\* runManualSync call is in progress, syncStatus.isRunning is true.
\* checkSyncStatus ends with setSyncStatus({ isRunning: false, ... }), so a
\* status check that was pending when the operation started resets it.
C18_AsStated == smOp # NoOp => smIsRunning

\* two operations that ended one after the other were both runManualSync
TwoManualRuns(k) ==
  /\ k \in DOMAIN smLog /\ k + 1 \in DOMAIN smLog
  /\ smLog[k].kind = "manual" /\ smLog[k + 1].kind = "manual"

\* C20, as the claim states it: of two runManualSync calls in a row over the
\* same invoices the second inserts no row, and no row is ever inserted for an
\* invoice without a number. An invoice whose check or insert failed in the
\* first run has no row after it, and the second run inserts it.
C20_AsStated ==
  /\ \A k \in DOMAIN smLog : TwoManualRuns(k) => smLog[k + 1].inserted = {}
  /\ \A number \in invoiceProducts : Truthy(number)

\* C20, corrected: no row is ever inserted for an invoice without a number;
\* of two runManualSync calls in a row over the same invoices, the second
\* inserts rows only for invoices whose check or insert failed in the first
\* (so none when the first met no error), unless the first ended before its
\* loop.
C20_SecondRunInsertsOnlyFailed ==
  /\ \A k \in DOMAIN smLog :
       (TwoManualRuns(k) /\ smLog[k].reached) =>
          smLog[k + 1].inserted \subseteq smLog[k].failed
  /\ \A number \in invoiceProducts : Truthy(number)

\* C20 witness: over two invoices with a number and one without, a first run
\* inserted one and failed on the other, and the second run inserted only
\* the one that had failed.
C20_Witness ==
  /\ TwoManualRuns(1)
  /\ \E i \in DOMAIN smInvoices : smInvoices[i].invoice_number = Null
  /\ smLog[1].reached
  /\ smLog[1].inserted # {} /\ smLog[1].failed # {}
  /\ smLog[1].inserted \cap smLog[1].failed = {}
  /\ smLog[2].inserted = smLog[1].failed

\* C19: every full sync started from the sync manager page leaves the
\* "syncing" status: whichever step fails or succeeds, handleFullSync ends
\* with status "success" or "error" and with loading false; the status is
\* "syncing" only while the handler runs; and the remote sync function is
\* called only with the org_id and the session the handler found.
C19_FullSyncEnds ==
  /\ [](\A i \in DOMAIN fsCalls : fsCalls[i].org_id /\ fsCalls[i].session)
  /\ [](fsStatus = "syncing" => fsLoading /\ fsPc \in {"credentials", "session", "fetch"})
  /\ [](fsPc = "idle" => ~fsLoading)
  /\ (fsStatus = "syncing") ~>
       (fsStatus \in {"success", "error"} /\ ~fsLoading /\ fsPc = "idle")

\* C19 witness: a first full sync called the remote function, a second one
\* did too and ended with an error, and the page is at rest.
C19_Witness ==
  /\ Len(fsCalls) = MaxCalls
  /\ fsStatus = "error" /\ ~fsLoading /\ fsPc = "idle"
  /\ fsMessage = "Sync failed"

\* ---- the catalogue upload

\* C21, as the claim states it: an uploadCatalogue that returned with "Upload
\* Failed" has left neither a product_catalogues row nor a stored file of its
\* fileName, and whenever no upload runs, uploading is false and the progress
\* is 0. The removal after a failed insert is awaited but its answer is
\* dropped, so a removal that answers with an error leaves the file stored.
C21_AsStated ==
  /\ \A k \in DOMAIN uploadLog :
       uploadLog[k].toast = "Upload Failed" =>
          /\ uploadLog[k].fileName \notin catalogueRows
          /\ uploadLog[k].fileName \notin storageObjects
  /\ upPc = "idle" => ~uploading /\ uploadProgress = 0

\* ---- the trigger test

\* C22, as the claim states it: once a testTriggers call that inserted its
\* TEST- invoice has ended, neither that invoice nor a row of invoice_products
\* for it exists. The deletes stand after the select in the try block, so a
\* select that answers with an error skips them; and a delete's own error is
\* never read.
C22_AsStated ==
  \A k \in DOMAIN ttLog :
     ttLog[k].inserted =>
        /\ \A i \in DOMAIN smInvoices : smInvoices[i].invoice_number # ttLog[k].number
        /\ ttLog[k].number \notin invoiceProducts

\* C23, as the claim states it: every run of fetchDashboardData leads to
\* loading being false. The two early returns (no user email, no profile
\* name) leave the try block without a setDashboardData, and nothing sets
\* loading afterwards.
C23_AsStated == (dashPc = "getUser") ~> (dashboardData.loading = FALSE)

\* ---- the analytics dashboard after a fetch

\* C24, as the claim states it: while the dashboard shows the data of a
\* successful fetch, the KPIs and the monthly rollup are those that
\* processAnalytics computes from the live lines under the selected timeframe.
\* The effect calls filterDataByTimeframe only if liveFactures.length > 0, so
\* a refresh that returns no lines leaves the totals of the previous fetch.
C24_AsStated ==
  (anPc = "shown" /\ ~anError) =>
     LET out == processAnalytics(filterDataByTimeframe(liveFactures, selectedTimeframe))
     IN  /\ kpis = out.kpis
         /\ monthlyRevenue = out.monthlyRevenue
         /\ filteredFactures = filterDataByTimeframe(liveFactures, selectedTimeframe)

====
